---- MODULE Spec2Model ----
(***************************************************************************)
(* EchoVault: the per-key locked keyspace, the sorted-set command          *)
(* handlers, the AOF engine, the snapshot gate, the Raft FSM restore and   *)
(* the TTL reaper, as state machines.                                      *)
(*                                                                         *)
(* Scores are 64-bit floats in the program; the model uses small integers. *)
(* The keyspace primitives (KeyExists, KeyLock, CreateKeyAndLock, ...) and *)
(* the SortedSet type live in files that are not part of the source tree   *)
(* at hand; they are modelled from the specification and marked so in the  *)
(* model map.  The locks are Go sync.RWMutex values (server.go:48): not    *)
(* reentrant, without owner, and unlocking an unlocked mutex is fatal.     *)
(***************************************************************************)
EXTENDS Integers, Sequences, FiniteSets, TLC

(* ------------------------------ bounds --------------------------------- *)

\* scores and increments range over 1..MaxScore
MaxScore == 1

\* the clients of the AOF engine issue at most MaxIssued commands in all
MaxIssued == 3

\* the clock runs from 0 to MaxTime
MaxTime == 2

\* the capacity of engine.logChan (4096 in the program)
LogChanCap == 2

Clients == {"c1", "c2"}
Rewriters == {"r1", "r2"}
Snapshotters == {"bgsave1", "bgsave2", "periodic"}
Policies == {"noeviction", "allkeys-lru", "volatile-lfu"}
Keys == {"k1", "k2"}
Members == {"a", "b"}
Scores == 1..MaxScore
None == "none"

VARIABLES
    store,            \* server.store: key -> KeyData value
    expireAt,         \* server.store[k].ExpireAt (0: no expiry)
    wlock,            \* keyLocks[k]: the client holding the write lock, or None
    rlock,            \* keyLocks[k]: read locks held, per client
    keyCreationLock,  \* server.keyCreationLock: holder or None
    fatal,            \* the process died (sync: Unlock of unlocked RWMutex, log.Fatal)
    now,              \* the clock
    pc,               \* per client: position in its handler
    cmd,              \* per client: the command being executed
    loc,              \* per client: the handler's local variables
    reply,            \* per client: the handler's result
    store0,           \* the store at start (history)
    served            \* per client: the commands served before, with their replies (history)

\* the AOF engine (standalone mode)
VARIABLES
    logChan,               \* engine.logChan: the queued commands, oldest first
    appendLog,             \* the append store's file: the commands written
    preamble,              \* the preamble store's file: a keyspace image
    mut,                   \* engine.mut: the rewriter holding it, or None
    RewriteAOFInProgress,  \* server.RewriteAOFInProgress
    wpc,                   \* the writer goroutine's position
    wcmd,                  \* the writer goroutine's local c
    rpc,                   \* per rewriter: position in RewriteAOF / RewriteLog
    issued,                \* per client: commands issued so far
    accepted,              \* the commands QueueCommand has accepted, in order (history)
    written,               \* the commands handed to appendStore.Write, in order (history)
    rwLog,                 \* the rewrite events, in order (history)
    ioFailed               \* a store operation has failed (history)

\* the snapshot gate (standalone mode)
VARIABLES
    SnapshotInProgress,    \* server.SnapshotInProgress
    spc,                   \* per caller of TakeSnapshot: its position, then its task's
    snapshotFile           \* the state last written by a snapshot task

\* the Raft FSM restoring a snapshot
VARIABLES
    snap,                  \* data.State: the decoded snapshot
    fpc,                   \* FSM.Restore's position
    ftodo,                 \* the keys the range loop has yet to visit
    fkey                   \* the range loop's k

\* Engine.Restore (standalone mode, at start-up)
VARIABLES
    epc,                   \* Engine.Restore's position
    etodo,                 \* the keys of the preamble yet to be restored
    enext                  \* the place in the append log of the next command to replay

\* a connection's response on its way to the client
VARIABLES
    cpc,                   \* handleConnection's position after handleCommand
    res,                   \* res: the response, a sequence of bytes
    startIndex,            \* startIndex of the chunk loop
    wire,                  \* the calls of w.Write: the bytes asked for and taken (history)
    loop                   \* the connection loop: how its last message ended, the
                           \* command errors so far, the calls of conn.Close (history)

\* Server.Start (standalone mode)
VARIABLES
    startPc,               \* Server.Start's position
    conf,                  \* server.Config: RestoreAOF, RestoreSnapshot
    restored,              \* the Restore calls made, in order (history)
    conns                  \* the connections listener.Accept has returned

\* the Raft log and the FSMs that apply it
VARIABLES
    raftLog,               \* the committed log entries, oldest first
    lastApplied,           \* the entries this server's FSM has applied
    responses,             \* what FSM.Apply did and returned, per entry (history)
    peer                   \* another replica: its keyspace and its FSM's responses

\* the Pub/Sub container and its callers
VARIABLES
    ps                     \* ps.channels, and each caller's position and arguments

\* the TTL reaper
VARIABLES
    evictionPolicy,        \* server.Config.EvictionPolicy
    srvPc,                 \* NewServer's position
    reaperPc               \* the eviction goroutine's position ("off": never started)

ksVars == <<store, expireAt, wlock, rlock, keyCreationLock, fatal, now>>
clVars == <<pc, cmd, loc, reply, store0, served>>
aofVars == <<logChan, appendLog, preamble, mut, RewriteAOFInProgress, wpc, wcmd,
             rpc, issued, accepted, written, rwLog, ioFailed>>
snapVars == <<SnapshotInProgress, spc, snapshotFile>>
fsmVars == <<snap, fpc, ftodo, fkey>>
reaperVars == <<evictionPolicy, srvPc, reaperPc>>
restoreVars == <<epc, etodo, enext>>
connVars == <<cpc, res, startIndex, wire, loop>>
startVars == <<startPc, conf, restored, conns>>
raftVars == <<raftLog, lastApplied, responses, peer>>
lateVars == <<startVars, raftVars, ps>>
othVars == <<aofVars, snapVars, fsmVars, reaperVars, restoreVars, connVars, lateVars>>

(* --------------------------- value variants ---------------------------- *)

Absent == [kind |-> "absent", set |-> {}]
NilVal == [kind |-> "nil", set |-> {}]
StringVal == [kind |-> "string", set |-> {}]
ZSet(s) == [kind |-> "zset", set |-> s]

MemberParam(v, s) == [value |-> v, score |-> s]

(* --------------------------- sorted set -------------------------------- *)

Contains(set, v) == \E e \in set : e.value = v

\* MemberObject{value, score, exists}; the zero value when v is not a member
Get(set, v) ==
    IF Contains(set, v)
    THEN LET e == CHOOSE e \in set : e.value = v
         IN [value |-> v, score |-> e.score, exists |-> TRUE]
    ELSE [value |-> v, score |-> 0, exists |-> FALSE]

Put(set, v, s) == {e \in set : e.value # v} \cup {MemberParam(v, s)}

RECURSIVE NewSortedSetFrom(_, _)
NewSortedSetFrom(set, members) ==
    IF members = <<>> THEN set
    ELSE NewSortedSetFrom(Put(set, Head(members).value, Head(members).score),
                          Tail(members))

NewSortedSet(members) == NewSortedSetFrom({}, members)

\* one score/member pair of AddOrUpdate: r is [set, count]
AddOrUpdateOne(r, m, updatePolicy, comparison, changed, incr) ==
    LET cur == Get(r.set, m.value)
        new == IF incr THEN cur.score + m.score ELSE m.score
    IN  IF ~cur.exists
        THEN IF updatePolicy = "xx" THEN r
             ELSE [set |-> Put(r.set, m.value, new), count |-> r.count + 1]
        ELSE IF updatePolicy = "nx" THEN r
             ELSE IF comparison = "gt" /\ ~(new > cur.score) THEN r
             ELSE IF comparison = "lt" /\ ~(new < cur.score) THEN r
             ELSE IF new = cur.score THEN r
             ELSE [set |-> Put(r.set, m.value, new),
                   count |-> IF changed THEN r.count + 1 ELSE r.count]

RECURSIVE AddOrUpdateAll(_, _, _, _, _, _)
AddOrUpdateAll(r, members, updatePolicy, comparison, changed, incr) ==
    IF members = <<>> THEN r
    ELSE AddOrUpdateAll(
            AddOrUpdateOne(r, Head(members), updatePolicy, comparison, changed, incr),
            Tail(members), updatePolicy, comparison, changed, incr)

\* SortedSet.AddOrUpdate: [set, count, err]
AddOrUpdate(set, members, updatePolicy, comparison, changed, incr) ==
    IF (updatePolicy = "nx" /\ comparison # None) \/ (incr /\ Len(members) # 1)
    THEN [set |-> set, count |-> 0, err |-> TRUE]
    ELSE LET r == AddOrUpdateAll([set |-> set, count |-> 0], members,
                                 updatePolicy, comparison, changed, incr)
         IN [set |-> r.set, count |-> r.count, err |-> FALSE]

\* SortedSet.Subtract: the members of base that are in none of the others
Subtract(base, others) ==
    {e \in base : \A i \in 1..Len(others) : ~Contains(others[i], e.value)}

RECURSIVE Aggregate(_, _)
Aggregate(aggregate, scores) ==
    IF Len(scores) = 1 THEN Head(scores)
    ELSE LET rest == Aggregate(aggregate, Tail(scores))
             h == Head(scores)
         IN CASE aggregate = "sum" -> h + rest
              [] aggregate = "min" -> IF h < rest THEN h ELSE rest
              [] aggregate = "max" -> IF h > rest THEN h ELSE rest

\* the weighted scores of v in the sets of setParams that contain it, in order
RECURSIVE WeightedScores(_, _)
WeightedScores(setParams, v) ==
    IF setParams = <<>> THEN <<>>
    ELSE LET p == Head(setParams)
         IN (IF Contains(p.set, v) THEN <<Get(p.set, v).score * p.weight>> ELSE <<>>)
            \o WeightedScores(Tail(setParams), v)

AllValues(setParams) ==
    UNION {{e.value : e \in setParams[i].set} : i \in 1..Len(setParams)}

Union(aggregate, setParams) ==
    {MemberParam(v, Aggregate(aggregate, WeightedScores(setParams, v))) :
        v \in AllValues(setParams)}

Intersect(aggregate, setParams) ==
    {MemberParam(v, Aggregate(aggregate, WeightedScores(setParams, v))) :
        v \in {w \in AllValues(setParams) :
                 \A i \in 1..Len(setParams) : Contains(setParams[i].set, w)}}

(* ----------------------------- keyspace -------------------------------- *)

HasEntry(k) == store[k].kind # "absent"

Expired(k) == expireAt[k] # 0 /\ expireAt[k] <= now

\* key_exists: present and not logically expired
KeyExists(k) == HasEntry(k) /\ ~Expired(k)

\* a write lock that is handed out while it is held
NeverHeld(k) == TRUE

WriteFree(k) == wlock[k] = None /\ \A c \in Clients : rlock[k][c] = 0
ReadFree(k) == wlock[k] = None

\* key_lock once the lock is free (the caller blocks until then)
KeyLock(c, k) == wlock' = [wlock EXCEPT ![k] = c]

\* key_rlock once no writer holds the lock
KeyRLock(c, k) == rlock' = [rlock EXCEPT ![k][c] = @ + 1]

\* key_unlock: nothing on an absent key; RWMutex.Unlock otherwise, which
\* releases the write lock whoever took it and is fatal when there is none
KeyUnlock(c, k) ==
    IF ~HasEntry(k) THEN UNCHANGED <<wlock, fatal>>
    ELSE IF wlock[k] # None
         THEN wlock' = [wlock EXCEPT ![k] = None] /\ UNCHANGED fatal
         ELSE fatal' = TRUE /\ UNCHANGED wlock

\* key_runlock of one read lock of the caller
KeyRUnlock(c, k) == rlock' = [rlock EXCEPT ![k][c] = IF @ > 0 THEN @ - 1 ELSE 0]

\* set_value: replaces the typed value
SetValue(k, v) == store' = [store EXCEPT ![k] = v]

\* create_key_and_lock, second half, under the creation lock: a new empty
\* entry returned write-locked, or the write lock of the existing entry
CanCreateKeyAndLock(k) == ~HasEntry(k) \/ WriteFree(k)

CreateKeyAndLock(c, k) ==
    /\ store' = [store EXCEPT ![k] = IF HasEntry(k) THEN @ ELSE NilVal]
    /\ wlock' = [wlock EXCEPT ![k] = c]
    /\ keyCreationLock' = None

(* ------------------------- handler plumbing ---------------------------- *)

NoCmd == [name |-> "none", key |-> "none", keys |-> <<>>, members |-> <<>>,
          updatePolicy |-> None, comparison |-> None, changed |-> FALSE,
          incr |-> FALSE, aggregate |-> "sum", weights |-> <<>>, args |-> <<>>]

NoLoc == [i |-> 1, locks |-> {}, sets |-> <<>>, base |-> {}, res |-> {}]

NoReply == [kind |-> "none", n |-> 0]
IntReply(n) == [kind |-> "int", n |-> n]
ScoreReply(s) == [kind |-> "score", n |-> s]
ErrReply == [kind |-> "err", n |-> 0]
NilReply == [kind |-> "nil", n |-> 0]
OkReply == [kind |-> "ok", n |-> 0]
ArrayReply(elems) == [kind |-> "array", n |-> elems]

\* the next position and local variables; a handler that returns drops its locals
Goto(c, label, l) ==
    /\ pc' = [pc EXCEPT ![c] = label]
    /\ loc' = [loc EXCEPT ![c] = IF label = "done" THEN NoLoc ELSE l]

Return(c, r) == reply' = [reply EXCEPT ![c] = r]

\* what every handler step leaves alone
Frame == UNCHANGED <<expireAt, now, cmd, store0, served>> /\ UNCHANGED othVars

\* first half of create_key_and_lock: take the creation lock
StepAcquireCreationLock(c, from, to) ==
    /\ ~fatal /\ pc[c] = from
    /\ keyCreationLock = None
    /\ keyCreationLock' = c
    /\ Goto(c, to, loc[c])
    /\ UNCHANGED <<store, wlock, rlock, fatal, reply>> /\ Frame

\* second half of create_key_and_lock
StepCreateKeyAndLock(c, from, k, to) ==
    /\ ~fatal /\ pc[c] = from
    /\ keyCreationLock = c
    /\ CanCreateKeyAndLock(k)
    /\ CreateKeyAndLock(c, k)
    /\ Goto(c, to, loc[c])
    /\ UNCHANGED <<rlock, fatal, reply>> /\ Frame

\* if _, err = server.KeyLock(ctx, k); err != nil { return nil, err }
StepKeyLock(c, from, k, to, toErr) ==
    /\ ~fatal /\ pc[c] = from
    /\ IF ~HasEntry(k)
       THEN Goto(c, toErr, loc[c]) /\ Return(c, ErrReply) /\ UNCHANGED wlock
       ELSE WriteFree(k) /\ KeyLock(c, k) /\ Goto(c, to, loc[c]) /\ UNCHANGED reply
    /\ UNCHANGED <<store, rlock, keyCreationLock, fatal>> /\ Frame

\* if _, err = server.KeyRLock(ctx, k); err != nil { return nil, err }
StepKeyRLock(c, from, k, to, toErr, newLoc) ==
    /\ ~fatal /\ pc[c] = from
    /\ IF ~HasEntry(k)
       THEN Goto(c, toErr, loc[c]) /\ Return(c, ErrReply) /\ UNCHANGED rlock
       ELSE ReadFree(k) /\ KeyRLock(c, k) /\ Goto(c, to, newLoc) /\ UNCHANGED reply
    /\ UNCHANGED <<store, wlock, keyCreationLock, fatal>> /\ Frame

\* server.KeyUnlock(ctx, k)
StepKeyUnlock(c, from, k, to) ==
    /\ ~fatal /\ pc[c] = from
    /\ KeyUnlock(c, k)
    /\ Goto(c, to, loc[c])
    /\ UNCHANGED <<store, rlock, keyCreationLock, reply>> /\ Frame

\* server.KeyRUnlock(ctx, k)
StepKeyRUnlock(c, from, k, to) ==
    /\ ~fatal /\ pc[c] = from
    /\ KeyRUnlock(c, k)
    /\ Goto(c, to, loc[c])
    /\ UNCHANGED <<store, wlock, keyCreationLock, fatal, reply>> /\ Frame

\* if err = server.SetValue(ctx, k, v); err != nil { return nil, err }
\* set_value fails when memory is exhausted: either outcome is possible
StepSetValue(c, from, k, v, r, to, toErr) ==
    /\ ~fatal /\ pc[c] = from
    /\ \E ok \in BOOLEAN :
         IF ok THEN SetValue(k, v) /\ Return(c, r) /\ Goto(c, to, loc[c])
         ELSE UNCHANGED store /\ Return(c, ErrReply) /\ Goto(c, toErr, loc[c])
    /\ UNCHANGED <<wlock, rlock, keyCreationLock, fatal>> /\ Frame

\* the deferred closure over the handler's locks map: one KeyRUnlock per key
StepRUnlockAll(c, from, to) ==
    /\ ~fatal /\ pc[c] = from
    /\ rlock' = [k \in Keys |->
                  IF k \in loc[c].locks /\ rlock[k][c] > 0
                  THEN [rlock[k] EXCEPT ![c] = @ - 1] ELSE rlock[k]]
    /\ Goto(c, to, loc[c])
    /\ UNCHANGED <<store, wlock, keyCreationLock, fatal, reply>> /\ Frame

\* GetValue and the type assertion: an error reply, or on with new locals
StepGetValue(c, from, k, to, toErr, newLoc) ==
    /\ ~fatal /\ pc[c] = from
    /\ IF store[k].kind # "zset"
       THEN Return(c, ErrReply) /\ Goto(c, toErr, loc[c])
       ELSE UNCHANGED reply /\ Goto(c, to, newLoc)
    /\ UNCHANGED <<store, wlock, rlock, keyCreationLock, fatal>> /\ Frame

\* a step that reads the keyspace and decides: where to go, with which locals
\* and, when the handler returns there, with which reply
StepDecide(c, from, to, newLoc, r) ==
    /\ ~fatal /\ pc[c] = from
    /\ Goto(c, to, newLoc)
    /\ Return(c, r)
    /\ UNCHANGED <<store, wlock, rlock, keyCreationLock, fatal>> /\ Frame

\* a client takes up a command
StepStart(c, command, label) ==
    /\ ~fatal /\ pc[c] = "idle"
    /\ cmd' = [cmd EXCEPT ![c] = command]
    /\ pc' = [pc EXCEPT ![c] = label]
    /\ UNCHANGED <<store, expireAt, wlock, rlock, keyCreationLock, fatal, now,
                   loc, reply, store0, served>>
    /\ UNCHANGED othVars

(* ------------------------------- ZADD ---------------------------------- *)

ZaddCmd(k, ms) == [NoCmd EXCEPT !.name = "zadd", !.key = k, !.members = ms]

Start_ZADD(c) ==
    \E k \in Keys, v \in Members, s \in Scores :
        StepStart(c, ZaddCmd(k, <<MemberParam(v, s)>>), "zadd_KeyExists")

handleZADD(c) ==
    \* if server.KeyExists(ctx, key)
    \/ StepDecide(c, "zadd_KeyExists",
                  IF KeyExists(cmd[c].key) THEN "zadd_KeyLock" ELSE "zadd_CreateKeyAndLock",
                  loc[c], reply[c])
    \* KeyLock
    \/ StepKeyLock(c, "zadd_KeyLock", cmd[c].key, "zadd_AddOrUpdate", "done")
    \* GetValue, the type assertion, set.AddOrUpdate on the stored set, the reply
    \/ LET k == cmd[c].key
           r == AddOrUpdate(store[k].set, cmd[c].members, cmd[c].updatePolicy,
                            cmd[c].comparison, cmd[c].changed, cmd[c].incr)
       IN  /\ ~fatal /\ pc[c] = "zadd_AddOrUpdate"
           /\ IF store[k].kind # "zset" \/ r.err
              THEN UNCHANGED store /\ Return(c, ErrReply)
              ELSE /\ store' = [store EXCEPT ![k] = ZSet(r.set)]
                   /\ Return(c, IF cmd[c].incr
                                 THEN ScoreReply(Get(r.set, cmd[c].members[1].value).score)
                                 ELSE IntReply(r.count))
           /\ Goto(c, "zadd_KeyUnlock", loc[c])
           /\ UNCHANGED <<wlock, rlock, keyCreationLock, fatal>> /\ Frame
    \* CreateKeyAndLock
    \/ StepAcquireCreationLock(c, "zadd_CreateKeyAndLock", "zadd_CreateKeyAndLock2")
    \* CreateKeyAndLock2
    \/ StepCreateKeyAndLock(c, "zadd_CreateKeyAndLock2", cmd[c].key, "zadd_SetValue")
    \* set := NewSortedSet(members); server.SetValue(ctx, key, set)
    \/ LET set == NewSortedSet(cmd[c].members)
       IN StepSetValue(c, "zadd_SetValue", cmd[c].key, ZSet(set),
                       IntReply(Cardinality(set)), "zadd_KeyUnlock", "zadd_KeyUnlock")
    \* defer server.KeyUnlock(ctx, key), on both paths
    \/ StepKeyUnlock(c, "zadd_KeyUnlock", cmd[c].key, "done")

(* --------------------------- ZADD, its options ------------------------- *)

\* the option words of ZADD, lower-cased
ZaddOptions == {"nx", "xx", "gt", "lt", "ch", "incr"}

\* the commands carry up to MaxOptions option words ...
MaxOptions == 3

\* ... and up to MaxPairs score/member pairs
MaxPairs == 2

OptionSeqs == UNION {[1..n -> ZaddOptions] : n \in 0..MaxOptions}

PairSeqs ==
    UNION {[1..n -> {MemberParam(v, s) : v \in Members, s \in Scores}] : n \in 1..MaxPairs}

\* var updatePolicy, comparison, changed, incr interface{} = nil
NoFlags == [updatePolicy |-> None, comparison |-> None, changed |-> FALSE,
            incr |-> FALSE, err |-> FALSE]

\* for _, option := range options {..}: each word sets its flag; NX after a
\* comparison, a comparison while the policy is NX, and INCR with more than
\* one pair return an error
RECURSIVE ParseOptions(_, _, _)
ParseOptions(flags, options, members) ==
    IF options = <<>> \/ flags.err THEN flags
    ELSE LET o == Head(options)
             f == CASE o \in {"xx", "nx"} ->
                         [flags EXCEPT !.updatePolicy = o,
                                       !.err = (o = "nx" /\ flags.comparison # None)]
                    [] o \in {"gt", "lt"} ->
                         [flags EXCEPT !.comparison = o,
                                       !.err = (flags.updatePolicy = "nx")]
                    [] o = "ch" -> [flags EXCEPT !.changed = TRUE]
                    [] o = "incr" ->
                         [flags EXCEPT !.incr = TRUE, !.err = (Len(members) > 1)]
                    [] OTHER -> [flags EXCEPT !.err = TRUE]
         IN ParseOptions(f, Tail(options), members)

\* the command as handleZADD holds it once its words are parsed
ZaddOptionsCmd(k, options, ms) ==
    LET f == ParseOptions(NoFlags, options, ms)
    IN [ZaddCmd(k, ms) EXCEPT !.args = options,
                              !.updatePolicy = f.updatePolicy,
                              !.comparison = f.comparison,
                              !.changed = f.changed,
                              !.incr = f.incr]

\* a handler that returns an error while it parses its command
StepReject(c, command) ==
    /\ ~fatal /\ pc[c] = "idle"
    /\ cmd' = [cmd EXCEPT ![c] = command]
    /\ pc' = [pc EXCEPT ![c] = "done"]
    /\ reply' = [reply EXCEPT ![c] = ErrReply]
    /\ UNCHANGED <<store, expireAt, wlock, rlock, keyCreationLock, fatal, now,
                   loc, store0, served>>
    /\ UNCHANGED othVars

\* handleZADD up to the KeyExists test: ZADD k1 [options] score member [score member]
parseZADD(c) ==
    /\ pc[c] = "idle"
    /\ \E options \in OptionSeqs, ms \in PairSeqs :
         IF ParseOptions(NoFlags, options, ms).err
         THEN StepReject(c, ZaddOptionsCmd("k1", options, ms))
         ELSE StepStart(c, ZaddOptionsCmd("k1", options, ms), "zadd_KeyExists")

(* ------------------------------ ZINCRBY -------------------------------- *)

ZincrbyCmd(k, v, d) ==
    [NoCmd EXCEPT !.name = "zincrby", !.key = k, !.members = <<MemberParam(v, d)>>]

Start_ZINCRBY(c) ==
    \E k \in Keys, v \in Members, d \in Scores :
        StepStart(c, ZincrbyCmd(k, v, d), "zincrby_KeyExists")

handleZINCRBY(c) ==
    \* if !server.KeyExists(ctx, key)
    \/ StepDecide(c, "zincrby_KeyExists",
                  IF ~KeyExists(cmd[c].key) THEN "zincrby_CreateKeyAndLock"
                  ELSE "zincrby_KeyLock",
                  loc[c], reply[c])
    \* CreateKeyAndLock
    \/ StepAcquireCreationLock(c, "zincrby_CreateKeyAndLock", "zincrby_CreateKeyAndLock2")
    \* CreateKeyAndLock2
    \/ StepCreateKeyAndLock(c, "zincrby_CreateKeyAndLock2", cmd[c].key, "zincrby_SetValue")
    \* SetValue(key, NewSortedSet({member, increment})); on failure the handler
    \* returns at once, before the KeyUnlock that follows
    \/ LET m == cmd[c].members[1]
       IN StepSetValue(c, "zincrby_SetValue", cmd[c].key, ZSet(NewSortedSet(<<m>>)),
                       ScoreReply(m.score), "zincrby_KeyUnlockNew", "done")
    \* KeyUnlockNew
    \/ StepKeyUnlock(c, "zincrby_KeyUnlockNew", cmd[c].key, "done")
    \* KeyLock
    \/ StepKeyLock(c, "zincrby_KeyLock", cmd[c].key, "zincrby_AddOrUpdate", "done")
    \* GetValue, the type assertion, set.AddOrUpdate(.., "xx", nil, nil, "incr")
    \/ LET k == cmd[c].key
           m == cmd[c].members[1]
           r == AddOrUpdate(store[k].set, <<m>>, "xx", None, FALSE, TRUE)
       IN  /\ ~fatal /\ pc[c] = "zincrby_AddOrUpdate"
           /\ IF store[k].kind # "zset" \/ r.err
              THEN UNCHANGED store /\ Return(c, ErrReply)
              ELSE /\ store' = [store EXCEPT ![k] = ZSet(r.set)]
                   /\ Return(c, ScoreReply(Get(r.set, m.value).score))
           /\ Goto(c, "zincrby_KeyUnlock", loc[c])
           /\ UNCHANGED <<wlock, rlock, keyCreationLock, fatal>> /\ Frame
    \* KeyUnlock
    \/ StepKeyUnlock(c, "zincrby_KeyUnlock", cmd[c].key, "done")

(* ----------------------------- ZDIFFSTORE ------------------------------ *)

KeySeqs == {<<a>> : a \in Keys} \cup {<<a, b>> : a \in Keys, b \in Keys}

StoreCmd(name, dest, ks) ==
    [NoCmd EXCEPT !.name = name, !.key = dest, !.keys = ks,
                  !.weights = [i \in 1..Len(ks) |-> 1]]

Start_ZDIFFSTORE(c) ==
    \E dest \in Keys, ks \in KeySeqs :
        StepStart(c, StoreCmd("zdiffstore", dest, ks), "zdiffstore_BaseExists")

handleZDIFFSTORE(c) ==
    \* if !server.KeyExists(ctx, keys[0]) { return ":0" }: the locks map is empty
    \/ /\ pc[c] = "zdiffstore_BaseExists"
       /\ IF ~KeyExists(cmd[c].keys[1])
          THEN StepDecide(c, "zdiffstore_BaseExists", "done", loc[c], IntReply(0))
          ELSE StepDecide(c, "zdiffstore_BaseExists", "zdiffstore_BaseRLock", loc[c],
                          reply[c])
    \* BaseRLock
    \/ StepKeyRLock(c, "zdiffstore_BaseRLock", cmd[c].keys[1],
                    "zdiffstore_BaseGetValue", "done", loc[c])
    \* baseSortedSet, ok := server.GetValue(ctx, keys[0]) as a *SortedSet
    \/ LET k == cmd[c].keys[1]
       IN StepGetValue(c, "zdiffstore_BaseGetValue", k, "zdiffstore_Loop",
                       "zdiffstore_BaseRUnlock",
                       [loc[c] EXCEPT !.base = store[k].set, !.i = 2])
    \* for i := 1; i < len(keys); i++ { if server.KeyExists(ctx, keys[i]) {..} };
    \* after the loop, diff := baseSortedSet.Subtract(sets) and KeyExists(destination)
    \/ LET i == loc[c].i
       IN  /\ pc[c] = "zdiffstore_Loop"
           /\ IF i > Len(cmd[c].keys)
              THEN StepDecide(c, "zdiffstore_Loop",
                              IF KeyExists(cmd[c].key) THEN "zdiffstore_KeyLock"
                              ELSE "zdiffstore_CreateKeyAndLock",
                              [loc[c] EXCEPT !.res = Subtract(loc[c].base, loc[c].sets)],
                              reply[c])
              ELSE IF KeyExists(cmd[c].keys[i])
                   THEN StepDecide(c, "zdiffstore_Loop", "zdiffstore_KeyRLock", loc[c], reply[c])
                   ELSE StepDecide(c, "zdiffstore_Loop", "zdiffstore_Loop",
                                   [loc[c] EXCEPT !.i = i + 1], reply[c])
    \* the read lock of keys[i] is taken and not entered in the locks map
    \/ StepKeyRLock(c, "zdiffstore_KeyRLock", cmd[c].keys[loc[c].i],
                    "zdiffstore_GetValue", "zdiffstore_BaseRUnlock", loc[c])
    \* GetValue
    \/ LET k == cmd[c].keys[loc[c].i]
       IN StepGetValue(c, "zdiffstore_GetValue", k, "zdiffstore_Loop",
                       "zdiffstore_BaseRUnlock",
                       [loc[c] EXCEPT !.sets = Append(@, store[k].set), !.i = @ + 1])
    \* KeyLock
    \/ StepKeyLock(c, "zdiffstore_KeyLock", cmd[c].key, "zdiffstore_SetValue",
                   "zdiffstore_BaseRUnlock")
    \* CreateKeyAndLock
    \/ StepAcquireCreationLock(c, "zdiffstore_CreateKeyAndLock", "zdiffstore_CreateKeyAndLock2")
    \* CreateKeyAndLock2
    \/ StepCreateKeyAndLock(c, "zdiffstore_CreateKeyAndLock2", cmd[c].key, "zdiffstore_SetValue")
    \* SetValue
    \/ StepSetValue(c, "zdiffstore_SetValue", cmd[c].key, ZSet(loc[c].res),
                    IntReply(Cardinality(loc[c].res)),
                    "zdiffstore_KeyUnlock", "zdiffstore_KeyUnlock")
    \* defer server.KeyUnlock(ctx, destination)
    \/ StepKeyUnlock(c, "zdiffstore_KeyUnlock", cmd[c].key, "zdiffstore_BaseRUnlock")
    \* defer server.KeyRUnlock(ctx, keys[0]); the deferred closure over the
    \* (empty) locks map follows and unlocks nothing
    \/ StepKeyRUnlock(c, "zdiffstore_BaseRUnlock", cmd[c].keys[1], "done")

(* ----------------------- ZINTERSTORE, ZUNIONSTORE ---------------------- *)

\* destination := keys[0]; cmd = slices.DeleteFunc(cmd, s == destination);
\* the keys are then extracted from what is left of the command
InputKeys(command) == SelectSeq(command.keys, LAMBDA k : k # command.key)

SetParam(set, weight) == [set |-> set, weight |-> weight]

\* the commands whose destination is not among the source keys
Start_ZINTERSTORE(c) ==
    \E dest \in Keys, ks \in KeySeqs :
        /\ InputKeys(StoreCmd("zinterstore", dest, ks)) = ks
        /\ StepStart(c, StoreCmd("zinterstore", dest, ks), "zinterstore_Loop")

handleZINTERSTORE(c) ==
    \* for i := 0; i < len(keys); i++ { if !server.KeyExists(ctx, keys[i]) { return ":0" } .. };
    \* after the loop, intersect := Intersect(..) and the choice of how to lock destination
    \/ LET i == loc[c].i
           ks == InputKeys(cmd[c])
           intersect == Intersect(cmd[c].aggregate, loc[c].sets)
       IN  /\ pc[c] = "zinterstore_Loop"
           /\ IF i > Len(ks)
              THEN StepDecide(c, "zinterstore_Loop",
                              IF KeyExists(cmd[c].key) /\ Cardinality(intersect) > 0
                              THEN "zinterstore_KeyLock"
                              ELSE IF Cardinality(intersect) > 0
                                   THEN "zinterstore_CreateKeyAndLock"
                                   ELSE "zinterstore_SetValue",
                              [loc[c] EXCEPT !.res = intersect], reply[c])
              ELSE IF ~KeyExists(ks[i])
                   THEN StepDecide(c, "zinterstore_Loop", "zinterstore_RUnlockAll", loc[c],
                                   IntReply(0))
                   ELSE StepDecide(c, "zinterstore_Loop", "zinterstore_KeyRLock", loc[c],
                                   reply[c])
    \* KeyRLock(keys[i]); locks[keys[i]] = true
    \/ LET k == InputKeys(cmd[c])[loc[c].i]
       IN StepKeyRLock(c, "zinterstore_KeyRLock", k, "zinterstore_GetValue",
                       "zinterstore_RUnlockAll", [loc[c] EXCEPT !.locks = @ \cup {k}])
    \* GetValue
    \/ LET i == loc[c].i
           k == InputKeys(cmd[c])[i]
       IN StepGetValue(c, "zinterstore_GetValue", k, "zinterstore_Loop",
                       "zinterstore_RUnlockAll",
                       [loc[c] EXCEPT !.sets = Append(@, SetParam(store[k].set,
                                                                cmd[c].weights[i])),
                                      !.i = i + 1])
    \* KeyLock
    \/ StepKeyLock(c, "zinterstore_KeyLock", cmd[c].key, "zinterstore_SetValue",
                   "zinterstore_RUnlockAll")
    \* CreateKeyAndLock
    \/ StepAcquireCreationLock(c, "zinterstore_CreateKeyAndLock",
                               "zinterstore_CreateKeyAndLock2")
    \* CreateKeyAndLock2
    \/ StepCreateKeyAndLock(c, "zinterstore_CreateKeyAndLock2", cmd[c].key,
                            "zinterstore_SetValue")
    \* server.SetValue(ctx, destination, intersect), whatever was locked before
    \/ StepSetValue(c, "zinterstore_SetValue", cmd[c].key, ZSet(loc[c].res),
                    IntReply(Cardinality(loc[c].res)),
                    "zinterstore_KeyUnlock", "zinterstore_KeyUnlock")
    \* defer server.KeyUnlock(ctx, destination)
    \/ StepKeyUnlock(c, "zinterstore_KeyUnlock", cmd[c].key, "zinterstore_RUnlockAll")
    \* RUnlockAll
    \/ StepRUnlockAll(c, "zinterstore_RUnlockAll", "done")

Start_ZUNIONSTORE(c) ==
    \E dest \in Keys, ks \in KeySeqs :
        /\ InputKeys(StoreCmd("zunionstore", dest, ks)) = ks
        /\ StepStart(c, StoreCmd("zunionstore", dest, ks), "zunionstore_Loop")

handleZUNIONSTORE(c) ==
    \* for i := 0; i < len(keys); i++ { if server.KeyExists(ctx, keys[i]) {..} };
    \* after the loop, union := Union(..) and KeyExists(destination)
    \/ LET i == loc[c].i
           ks == InputKeys(cmd[c])
       IN  /\ pc[c] = "zunionstore_Loop"
           /\ IF i > Len(ks)
              THEN StepDecide(c, "zunionstore_Loop",
                              IF KeyExists(cmd[c].key) THEN "zunionstore_KeyLock"
                              ELSE "zunionstore_CreateKeyAndLock",
                              [loc[c] EXCEPT !.res = Union(cmd[c].aggregate, loc[c].sets)],
                              reply[c])
              ELSE IF KeyExists(ks[i])
                   THEN StepDecide(c, "zunionstore_Loop", "zunionstore_KeyRLock", loc[c],
                                   reply[c])
                   ELSE StepDecide(c, "zunionstore_Loop", "zunionstore_Loop",
                                   [loc[c] EXCEPT !.i = i + 1], reply[c])
    \* KeyRLock
    \/ LET k == InputKeys(cmd[c])[loc[c].i]
       IN StepKeyRLock(c, "zunionstore_KeyRLock", k, "zunionstore_GetValue",
                       "zunionstore_RUnlockAll", [loc[c] EXCEPT !.locks = @ \cup {k}])
    \* GetValue
    \/ LET i == loc[c].i
           k == InputKeys(cmd[c])[i]
       IN StepGetValue(c, "zunionstore_GetValue", k, "zunionstore_Loop",
                       "zunionstore_RUnlockAll",
                       [loc[c] EXCEPT !.sets = Append(@, SetParam(store[k].set,
                                                                cmd[c].weights[i])),
                                      !.i = i + 1])
    \* KeyLock
    \/ StepKeyLock(c, "zunionstore_KeyLock", cmd[c].key, "zunionstore_SetValue",
                   "zunionstore_RUnlockAll")
    \* CreateKeyAndLock
    \/ StepAcquireCreationLock(c, "zunionstore_CreateKeyAndLock",
                               "zunionstore_CreateKeyAndLock2")
    \* CreateKeyAndLock2
    \/ StepCreateKeyAndLock(c, "zunionstore_CreateKeyAndLock2", cmd[c].key,
                            "zunionstore_SetValue")
    \* SetValue
    \/ StepSetValue(c, "zunionstore_SetValue", cmd[c].key, ZSet(loc[c].res),
                    IntReply(Cardinality(loc[c].res)),
                    "zunionstore_KeyUnlock", "zunionstore_KeyUnlock")
    \* KeyUnlock
    \/ StepKeyUnlock(c, "zunionstore_KeyUnlock", cmd[c].key, "zunionstore_RUnlockAll")
    \* RUnlockAll
    \/ StepRUnlockAll(c, "zunionstore_RUnlockAll", "done")

\* ZINTERSTORE or ZUNIONSTORE dest k1 k2 with dest one of k1, k2: the commands
\* whose destination is also a source key
Start_StoreSelf(c) ==
    \E name \in {"zinterstore", "zunionstore"}, dest \in Keys, ks \in KeySeqs :
        /\ Len(ks) = 2 /\ ks[1] # ks[2] /\ dest \in {ks[1], ks[2]}
        /\ StepStart(c, StoreCmd(name, dest, ks),
                     IF name = "zinterstore" THEN "zinterstore_Loop" ELSE "zunionstore_Loop")

(* -------------------------------- ZCARD -------------------------------- *)

handleZCARD(c) ==
    \* if !server.KeyExists(ctx, key) { return ":0" }
    \/ /\ pc[c] = "zcard_KeyExists"
       /\ IF ~KeyExists(cmd[c].key)
          THEN StepDecide(c, "zcard_KeyExists", "done", loc[c], IntReply(0))
          ELSE StepDecide(c, "zcard_KeyExists", "zcard_KeyRLock", loc[c], reply[c])
    \* if _, err = server.KeyRLock(ctx, key); err != nil { return nil, err }
    \/ StepKeyRLock(c, "zcard_KeyRLock", cmd[c].key, "zcard_GetValue", "done", loc[c])
    \* GetValue and the type assertion; return ":%d" of set.Cardinality()
    \/ /\ pc[c] = "zcard_GetValue"
       /\ StepDecide(c, "zcard_GetValue", "zcard_KeyRUnlock", loc[c],
                     IF store[cmd[c].key].kind # "zset" THEN ErrReply
                     ELSE IntReply(Cardinality(store[cmd[c].key].set)))
    \* defer server.KeyRUnlock(ctx, key)
    \/ StepKeyRUnlock(c, "zcard_KeyRUnlock", cmd[c].key, "done")

\* ZCARD k1
Start_ZCARD(c) ==
    StepStart(c, [NoCmd EXCEPT !.name = "zcard", !.key = "k1"], "zcard_KeyExists")

(* -------------------------- ZRANGE, ZRANGESTORE ------------------------ *)

\* the members of the sorted sets that are ranged over, in lexicographic order
SetMembers == <<"a", "b", "c">>

\* their scores range over 1..MaxSetScore
MaxSetScore == 3

\* LIMIT offsets range over 0..MaxOffset, counts over -1..MaxOffset
MaxOffset == 2

\* a connection is served at most MaxServed commands
MaxServed == 2

\* every sorted set over SetMembers with scores in 1..MaxSetScore
SortedSets ==
    {s \in SUBSET {MemberParam(SetMembers[i], sc) : i \in 1..Len(SetMembers),
                                                    sc \in 1..MaxSetScore} :
        \A e, f \in s : e.value = f.value => e = f}

\* the position of member value v in lexicographic order
LexIndex(v) == CHOOSE i \in 1..Len(SetMembers) : SetMembers[i] = v

\* compareLex(a, b): -1, 0 or 1 as a comes before, is, or comes after b
compareLex(a, b) ==
    IF LexIndex(a) < LexIndex(b) THEN -1 ELSE IF LexIndex(a) = LexIndex(b) THEN 0 ELSE 1

\* SortedSet.GetAll(): the members, in an order that nothing fixes
GetAll(set) ==
    {m \in [1..Cardinality(set) -> set] :
        \A i, j \in 1..Cardinality(set) : i # j => m[i] # m[j]}

\* the score/member pairs that make up set, in the order of SetMembers
AsPairs(set) ==
    LET all == [i \in 1..Len(SetMembers) |-> Get(set, SetMembers[i])]
        present == SelectSeq(all, LAMBDA m : m.exists)
    IN [i \in 1..Len(present) |-> MemberParam(present[i].value, present[i].score)]

\* start stop [REV] [LIMIT offset count] [WITHSCORES]; without LIMIT the
\* handler's offset is 0 and its count -1
RangeArgs ==
    [start : {0, 1}, stop : {-1, MaxSetScore}, reverse : BOOLEAN, withscores : BOOLEAN,
     offset : 0..MaxOffset, count : -1..MaxOffset]

RangeCmd(name, k, source, a) ==
    [NoCmd EXCEPT !.name = name, !.key = k, !.keys = source, !.args = a]

\* members := set.GetAll(); slices.SortFunc(members, cmp.Compare of the
\* scores, reversed or not): the comparison looks at the scores only and
\* the sort is not stable, so members of equal score come in any order
SortFunc(set, reverse) ==
    {m \in [1..Cardinality(set) -> set] :
        /\ \A i, j \in 1..Cardinality(set) : i # j => m[i] # m[j]
        /\ \A i \in 1..(Cardinality(set) - 1) :
             IF reverse THEN m[i].score >= m[i + 1].score
             ELSE m[i].score <= m[i + 1].score}

\* if count < 0 { count = set.Cardinality() - offset };
\* for i := offset; i <= count; i++ { if i >= len(members) { break };
\*   if scoreStart <= members[i].score <= scoreStop { append } }
RangeLoop(members, a) ==
    LET count == IF a.count < 0 THEN Len(members) - a.offset ELSE a.count
        last == IF count + 1 < Len(members) THEN count + 1 ELSE Len(members)
    IN SelectSeq(SubSeq(members, a.offset + 1, last),
                 LAMBDA m : m.score >= a.start /\ m.score <= a.stop)

\* the elements of the array reply: members with their scores, or values
Elements(members, withscores) ==
    [i \in 1..Len(members) |-> IF withscores THEN members[i] ELSE members[i].value]

handleZRANGE(c) ==
    \* if !server.KeyExists(ctx, key) { return "*0" }
    \/ /\ pc[c] = "zrange_KeyExists"
       /\ IF ~KeyExists(cmd[c].key)
          THEN StepDecide(c, "zrange_KeyExists", "done", loc[c], ArrayReply(<<>>))
          ELSE StepDecide(c, "zrange_KeyExists", "zrange_KeyRLock", loc[c], reply[c])
    \* KeyRLock
    \/ StepKeyRLock(c, "zrange_KeyRLock", cmd[c].key, "zrange_GetValue", "done", loc[c])
    \* GetValue and the type assertion; if offset > set.Cardinality() { return "*0" };
    \* the sort, the loop, the reply
    \/ /\ pc[c] = "zrange_GetValue"
       /\ LET v == store[cmd[c].key]
              a == cmd[c].args
          IN  IF v.kind # "zset"
              THEN StepDecide(c, "zrange_GetValue", "zrange_KeyRUnlock", loc[c], ErrReply)
              ELSE IF a.offset > Cardinality(v.set)
              THEN StepDecide(c, "zrange_GetValue", "zrange_KeyRUnlock", loc[c],
                              ArrayReply(<<>>))
              ELSE \E members \in SortFunc(v.set, a.reverse) :
                     StepDecide(c, "zrange_GetValue", "zrange_KeyRUnlock", loc[c],
                                ArrayReply(Elements(RangeLoop(members, a), a.withscores)))
    \* defer server.KeyRUnlock(ctx, key)
    \/ StepKeyRUnlock(c, "zrange_KeyRUnlock", cmd[c].key, "done")

\* cmd.key is the destination, cmd.keys[1] the source
handleZRANGESTORE(c) ==
    \* if !server.KeyExists(ctx, source) { return "*0" }
    \/ /\ pc[c] = "zrangestore_KeyExists"
       /\ IF ~KeyExists(cmd[c].keys[1])
          THEN StepDecide(c, "zrangestore_KeyExists", "done", loc[c], ArrayReply(<<>>))
          ELSE StepDecide(c, "zrangestore_KeyExists", "zrangestore_KeyRLock", loc[c],
                          reply[c])
    \* KeyRLock(source)
    \/ /\ pc[c] = "zrangestore_KeyRLock"
       /\ StepKeyRLock(c, "zrangestore_KeyRLock", cmd[c].keys[1], "zrangestore_GetValue",
                       "done", loc[c])
    \* GetValue and the type assertion; if offset > set.Cardinality() { return ":0" };
    \* the sort, the loop, newSortedSet := NewSortedSet(resultMembers) and the
    \* choice of how to lock destination
    \/ /\ pc[c] = "zrangestore_GetValue"
       /\ LET v == store[cmd[c].keys[1]]
              a == cmd[c].args
          IN  IF v.kind # "zset"
              THEN StepDecide(c, "zrangestore_GetValue", "zrangestore_KeyRUnlock", loc[c],
                              ErrReply)
              ELSE IF a.offset > Cardinality(v.set)
              THEN StepDecide(c, "zrangestore_GetValue", "zrangestore_KeyRUnlock", loc[c],
                              IntReply(0))
              ELSE \E members \in SortFunc(v.set, a.reverse) :
                     StepDecide(c, "zrangestore_GetValue",
                                IF KeyExists(cmd[c].key) THEN "zrangestore_KeyLock"
                                ELSE "zrangestore_CreateKeyAndLock",
                                [loc[c] EXCEPT !.res = NewSortedSet(RangeLoop(members, a))],
                                reply[c])
    \* KeyLock(destination)
    \/ StepKeyLock(c, "zrangestore_KeyLock", cmd[c].key, "zrangestore_SetValue",
                   "zrangestore_KeyRUnlock")
    \* CreateKeyAndLock(destination)
    \/ StepAcquireCreationLock(c, "zrangestore_CreateKeyAndLock",
                               "zrangestore_CreateKeyAndLock2")
    \* CreateKeyAndLock2
    \/ StepCreateKeyAndLock(c, "zrangestore_CreateKeyAndLock2", cmd[c].key,
                            "zrangestore_SetValue")
    \* SetValue(destination, newSortedSet)
    \/ StepSetValue(c, "zrangestore_SetValue", cmd[c].key, ZSet(loc[c].res),
                    IntReply(Cardinality(loc[c].res)),
                    "zrangestore_KeyUnlock", "zrangestore_KeyUnlock")
    \* defer server.KeyUnlock(ctx, destination)
    \/ StepKeyUnlock(c, "zrangestore_KeyUnlock", cmd[c].key, "zrangestore_KeyRUnlock")
    \* defer server.KeyRUnlock(ctx, source)
    \/ /\ pc[c] = "zrangestore_KeyRUnlock"
       /\ StepKeyRUnlock(c, "zrangestore_KeyRUnlock", cmd[c].keys[1], "done")

\* the commands a connection sends to build a sorted set at k1 and range over
\* it, ZRANGESTORE with destination k2
Start_Range(c) ==
    \* ZADD k1 score member [score member ...]
    \/ /\ pc[c] = "idle"
       /\ \E set \in SortedSets \ {{}} :
            StepStart(c, ZaddCmd("k1", AsPairs(set)), "zadd_KeyExists")
    \* ZRANGE k1 start stop ..
    \/ /\ pc[c] = "idle"
       /\ \E a \in RangeArgs :
            StepStart(c, RangeCmd("zrange", "k1", <<>>, a), "zrange_KeyExists")
    \* ZRANGESTORE k2 k1 start stop ..
    \/ /\ pc[c] = "idle"
       /\ \E a \in RangeArgs :
            /\ ~a.withscores
            /\ StepStart(c, RangeCmd("zrangestore", "k2", <<"k1">>, a),
                         "zrangestore_KeyExists")

(* ------------------- ZRANK, ZREMRANGEBYRANK, ZMPOP --------------------- *)

\* rank indices range over -(MaxIndex + 1)..MaxIndex, COUNT over 1..MaxIndex
MaxIndex == 3

\* the members are never put in descending order
AlwaysAscending(name) == FALSE

\* strings.EqualFold(cmd[0], "zrevrank"): the comparator takes b before a
Descending(name) == name = "zrevrank"

\* for i := 0; i < len(members); i++ { if members[i].value == member { .. i .. } }:
\* the index of the member, from 0, or -1 when the loop ends without it
IndexOf(members, v) ==
    IF \E i \in 1..Len(members) : members[i].value = v
    THEN (CHOOSE i \in 1..Len(members) : members[i].value = v) - 1
    ELSE -1

\* cmd.name is "zrank" or "zrevrank": the two commands share the handler
handleZRANK(c) ==
    \* if !server.KeyExists(ctx, key) { return "$-1" }
    \/ /\ pc[c] = "zrank_KeyExists"
       /\ IF ~KeyExists(cmd[c].key)
          THEN StepDecide(c, "zrank_KeyExists", "done", loc[c], NilReply)
          ELSE StepDecide(c, "zrank_KeyExists", "zrank_KeyRLock", loc[c], reply[c])
    \* KeyRLock
    \/ StepKeyRLock(c, "zrank_KeyRLock", cmd[c].key, "zrank_GetValue", "done", loc[c])
    \* GetValue and the type assertion, the sort (descending for zrevrank),
    \* the search for the member
    \/ /\ pc[c] = "zrank_GetValue"
       /\ LET v == store[cmd[c].key]
              a == cmd[c].args
          IN  IF v.kind # "zset"
              THEN StepDecide(c, "zrank_GetValue", "zrank_KeyRUnlock", loc[c], ErrReply)
              ELSE \E members \in SortFunc(v.set, Descending(cmd[c].name)) :
                     LET i == IndexOf(members, a.member)
                     IN StepDecide(c, "zrank_GetValue", "zrank_KeyRUnlock", loc[c],
                                   IF i = -1 THEN NilReply
                                   ELSE IF a.withscores
                                        THEN ArrayReply(<<i, members[i + 1].score>>)
                                        ELSE ArrayReply(<<i>>))
    \* defer server.KeyRUnlock(ctx, key)
    \/ StepKeyRUnlock(c, "zrank_KeyRUnlock", cmd[c].key, "done")

\* an index taken as it was given
RankIndexRaw(i, cardinality) == i

\* if start < 0 { start = start + set.Cardinality() }, and the same for stop
RankIndex(i, cardinality) == IF i < 0 THEN i + cardinality ELSE i

handleZREMRANGEBYRANK(c) ==
    \* if !server.KeyExists(ctx, key) { return ":0" }
    \/ /\ pc[c] = "zremrangebyrank_KeyExists"
       /\ IF ~KeyExists(cmd[c].key)
          THEN StepDecide(c, "zremrangebyrank_KeyExists", "done", loc[c], IntReply(0))
          ELSE StepDecide(c, "zremrangebyrank_KeyExists", "zremrangebyrank_KeyLock",
                          loc[c], reply[c])
    \* KeyLock
    \/ StepKeyLock(c, "zremrangebyrank_KeyLock", cmd[c].key, "zremrangebyrank_Remove",
                   "done")
    \* GetValue and the type assertion, the indices, the bounds check, the
    \* sort by ascending score, set.Remove of members[start..stop] (of
    \* members[stop..start] when start >= stop)
    \/ /\ ~fatal /\ pc[c] = "zremrangebyrank_Remove"
       /\ LET k == cmd[c].key
              n == Cardinality(store[k].set)
              start == RankIndex(cmd[c].args.start, n)
              stop == RankIndex(cmd[c].args.stop, n)
              lo == IF start < stop THEN start ELSE stop
              hi == IF start < stop THEN stop ELSE start
          IN  IF \/ store[k].kind # "zset"
                 \/ start < 0 \/ start > n - 1 \/ stop < 0 \/ stop > n - 1
              THEN UNCHANGED store /\ Return(c, ErrReply)
              ELSE \E members \in SortFunc(store[k].set, FALSE) :
                     /\ store' = [store EXCEPT ![k] =
                           ZSet(store[k].set \ {members[i + 1] : i \in lo..hi})]
                     /\ Return(c, IntReply(hi - lo + 1))
       /\ Goto(c, "zremrangebyrank_KeyUnlock", loc[c])
       /\ UNCHANGED <<wlock, rlock, keyCreationLock, fatal>> /\ Frame
    \* defer server.KeyUnlock(ctx, key)
    \/ StepKeyUnlock(c, "zremrangebyrank_KeyUnlock", cmd[c].key, "done")

\* SortedSet.Pop(count, policy): up to count members are taken off the set,
\* the lowest scores first under "min", the highest first under "max"; the
\* possible results, one for each order of the members of equal score
Pop(set, count, policy) ==
    {[popped |-> SubSeq(m, 1, IF count < Len(m) THEN count ELSE Len(m)),
      rest |-> {m[i] : i \in (count + 1)..Len(m)}] : m \in SortFunc(set, policy = "max")}

\* a set is popped from whatever it holds
PoppableAny(k) == store[k].kind = "zset"

\* v, ok := GetValue(keys[i]) as a *SortedSet; !(!ok || v.Cardinality() == 0)
Poppable(k) == store[k].kind = "zset" /\ Cardinality(store[k].set) # 0

handleZMPOP(c) ==
    \* for i := 0; i < len(keys); i++ { if server.KeyExists(ctx, keys[i]) {..} };
    \* after the loop, return "*0"
    \/ /\ pc[c] = "zmpop_Loop"
       /\ IF loc[c].i > Len(cmd[c].keys)
          THEN StepDecide(c, "zmpop_Loop", "done", loc[c], ArrayReply(<<>>))
          ELSE IF KeyExists(cmd[c].keys[loc[c].i])
               THEN StepDecide(c, "zmpop_Loop", "zmpop_KeyLock", loc[c], reply[c])
               ELSE StepDecide(c, "zmpop_Loop", "zmpop_Loop",
                               [loc[c] EXCEPT !.i = @ + 1], reply[c])
    \* if _, err = server.KeyLock(ctx, keys[i]); err != nil { continue }
    \/ /\ ~fatal /\ pc[c] = "zmpop_KeyLock"
       /\ LET k == cmd[c].keys[loc[c].i]
          IN  IF ~HasEntry(k)
              THEN Goto(c, "zmpop_Loop", [loc[c] EXCEPT !.i = @ + 1]) /\ UNCHANGED wlock
              ELSE WriteFree(k) /\ KeyLock(c, k) /\ Goto(c, "zmpop_Pop", loc[c])
       /\ UNCHANGED <<store, rlock, keyCreationLock, fatal, reply>> /\ Frame
    \* GetValue; a value that is no sorted set, or an empty one, is unlocked
    \* and passed over; otherwise popped, err := v.Pop(count, policy)
    \/ /\ ~fatal /\ pc[c] = "zmpop_Pop"
       /\ LET k == cmd[c].keys[loc[c].i]
          IN  IF ~Poppable(k)
              THEN /\ Goto(c, "zmpop_KeyUnlockNext", loc[c])
                   /\ UNCHANGED <<store, reply>>
              ELSE \E r \in Pop(store[k].set, cmd[c].args.count, cmd[c].args.policy) :
                     /\ store' = [store EXCEPT ![k] = ZSet(r.rest)]
                     /\ Return(c, ArrayReply(r.popped))
                     /\ Goto(c, "zmpop_KeyUnlock", loc[c])
       /\ UNCHANGED <<wlock, rlock, keyCreationLock, fatal>> /\ Frame
    \* server.KeyUnlock(ctx, keys[i]); continue
    \/ /\ ~fatal /\ pc[c] = "zmpop_KeyUnlockNext"
       /\ KeyUnlock(c, cmd[c].keys[loc[c].i])
       /\ Goto(c, "zmpop_Loop", [loc[c] EXCEPT !.i = @ + 1])
       /\ UNCHANGED <<store, rlock, keyCreationLock, reply>> /\ Frame
    \* server.KeyUnlock(ctx, keys[i]); return the popped members
    \/ /\ pc[c] = "zmpop_KeyUnlock"
       /\ StepKeyUnlock(c, "zmpop_KeyUnlock", cmd[c].keys[loc[c].i], "done")

\* ZPOPMIN / ZPOPMAX pop up to MaxCount members
MaxCount == 2

\* policy := "min"; if strings.EqualFold(cmd[0], "zpopmax") { policy = "max" }
PopPolicy(name) == IF name = "zpopmax" THEN "max" ELSE "min"

handleZPOP(c) ==
    \* if !server.KeyExists(ctx, key) { return "*0" }
    \/ /\ pc[c] = "zpop_KeyExists"
       /\ IF ~KeyExists(cmd[c].key)
          THEN StepDecide(c, "zpop_KeyExists", "done", loc[c], ArrayReply(<<>>))
          ELSE StepDecide(c, "zpop_KeyExists", "zpop_KeyLock", loc[c], reply[c])
    \* KeyLock
    \/ StepKeyLock(c, "zpop_KeyLock", cmd[c].key, "zpop_GetValue", "done")
    \* set, ok := server.GetValue(ctx, key).(*SortedSet): the set the handler
    \* goes on to work with
    \/ StepGetValue(c, "zpop_GetValue", cmd[c].key, "zpop_Pop", "zpop_KeyUnlock",
                    [loc[c] EXCEPT !.base = store[cmd[c].key].set])
    \* popped, err := set.Pop(count, policy); the reply lists popped.GetAll()
    \/ /\ ~fatal /\ pc[c] = "zpop_Pop"
       /\ \E r \in Pop(loc[c].base, cmd[c].args.count, PopPolicy(cmd[c].name)) :
            \E members \in GetAll({r.popped[i] : i \in 1..Len(r.popped)}) :
              /\ store' = [store EXCEPT ![cmd[c].key] = ZSet(r.rest)]
              /\ Return(c, ArrayReply(members))
              /\ Goto(c, "zpop_KeyUnlock", loc[c])
       /\ UNCHANGED <<wlock, rlock, keyCreationLock, fatal>> /\ Frame
    \* defer server.KeyUnlock(ctx, key)
    \/ StepKeyUnlock(c, "zpop_KeyUnlock", cmd[c].key, "done")

\* the pop commands of a connection, on key k1
Start_Pop(c) ==
    \* ZPOPMIN k1 [count], ZPOPMAX k1 [count]
    \/ /\ pc[c] = "idle"
       /\ \E name \in {"zpopmin", "zpopmax"}, count \in 1..MaxCount :
            StepStart(c, RangeCmd(name, "k1", <<>>, [count |-> count]), "zpop_KeyExists")
    \* ZMPOP k1 MIN|MAX COUNT count, ZMPOP k2 k1 MIN|MAX COUNT count
    \/ /\ pc[c] = "idle"
       /\ \E ks \in {<<"k1">>, <<"k2", "k1">>}, policy \in {"min", "max"},
             count \in 1..MaxCount :
            StepStart(c, RangeCmd("zmpop", None, ks, [policy |-> policy, count |-> count]),
                      "zmpop_Loop")

\* for i := 0; i < len(members)-2; i++ { if members[i].score !=
\* members[i+1].score { return ":0" } }: the loop finds two scores that differ
ScoresDiffer(members) ==
    \E i \in 0..(Len(members) - 3) : members[i + 1].score # members[i + 2].score

\* the members whose value is within minimum..maximum
LexCount(members, minimum, maximum) ==
    Cardinality({i \in 1..Len(members) :
                    /\ compareLex(members[i].value, minimum) \in {1, 0}
                    /\ compareLex(members[i].value, maximum) \in {-1, 0}})

handleZLEXCOUNT(c) ==
    \* if !server.KeyExists(ctx, key) { return ":0" }
    \/ /\ pc[c] = "zlexcount_KeyExists"
       /\ IF ~KeyExists(cmd[c].key)
          THEN StepDecide(c, "zlexcount_KeyExists", "done", loc[c], IntReply(0))
          ELSE StepDecide(c, "zlexcount_KeyExists", "zlexcount_KeyRLock", loc[c], reply[c])
    \* KeyRLock
    \/ StepKeyRLock(c, "zlexcount_KeyRLock", cmd[c].key, "zlexcount_GetValue", "done",
                    loc[c])
    \* GetValue and the type assertion, GetAll, the test of the scores, the count
    \/ /\ pc[c] = "zlexcount_GetValue"
       /\ LET v == store[cmd[c].key]
              a == cmd[c].args
          IN  IF v.kind # "zset"
              THEN StepDecide(c, "zlexcount_GetValue", "zlexcount_KeyRUnlock", loc[c],
                              ErrReply)
              ELSE \E members \in GetAll(v.set) :
                     StepDecide(c, "zlexcount_GetValue", "zlexcount_KeyRUnlock", loc[c],
                                IF ScoresDiffer(members) THEN IntReply(0)
                                ELSE IntReply(LexCount(members, a.minimum, a.maximum)))
    \* defer server.KeyRUnlock(ctx, key)
    \/ StepKeyRUnlock(c, "zlexcount_KeyRUnlock", cmd[c].key, "done")

\* the rank and pop commands a connection sends
Start_Rank(c) ==
    \* ZLEXCOUNT k1 min max
    \/ /\ pc[c] = "idle"
       /\ \E i, j \in 1..Len(SetMembers) :
            StepStart(c, RangeCmd("zlexcount", "k1", <<>>,
                                  [minimum |-> SetMembers[i], maximum |-> SetMembers[j]]),
                      "zlexcount_KeyExists")
    \* ZRANK k1 member [WITHSCORE], ZREVRANK k1 member [WITHSCORE]
    \/ /\ pc[c] = "idle"
       /\ \E name \in {"zrank", "zrevrank"}, i \in 1..Len(SetMembers), ws \in BOOLEAN :
            StepStart(c, RangeCmd(name, "k1", <<>>,
                                  [member |-> SetMembers[i], withscores |-> ws]),
                      "zrank_KeyExists")
    \* ZREMRANGEBYRANK k1 start stop
    \/ /\ pc[c] = "idle"
       /\ \E start, stop \in (0 - MaxIndex - 1)..MaxIndex :
            StepStart(c, RangeCmd("zremrangebyrank", "k1", <<>>,
                                  [start |-> start, stop |-> stop]),
                      "zremrangebyrank_KeyExists")
    \* ZMPOP key [key] MIN|MAX COUNT count
    \/ /\ pc[c] = "idle"
       /\ \E ks \in KeySeqs, policy \in {"min", "max"}, count \in 1..MaxIndex :
            StepStart(c, RangeCmd("zmpop", None, ks, [policy |-> policy, count |-> count]),
                      "zmpop_Loop")

\* the connection that has had its ZADD served sends its next command
NextCommand(c) ==
    /\ ~fatal /\ pc[c] = "done"
    /\ cmd[c].name = "zadd"
    /\ Len(served[c]) + 1 < MaxServed
    /\ served' = [served EXCEPT ![c] = Append(@, [cmd |-> cmd[c], reply |-> reply[c]])]
    /\ pc' = [pc EXCEPT ![c] = "idle"]
    /\ cmd' = [cmd EXCEPT ![c] = NoCmd]
    /\ reply' = [reply EXCEPT ![c] = NoReply]
    /\ UNCHANGED <<store, expireAt, wlock, rlock, keyCreationLock, fatal, now,
                   loc, store0>>
    /\ UNCHANGED othVars

(* ------------------- handleConnection: the response -------------------- *)

\* chunkSize := 1024 in the program
chunkSize == 3

\* responses are up to MaxRes bytes long
MaxRes == 10

\* w.Write(p): the call with the bytes it was given and those it took
WriteCall(p, n) == [asked |-> p, taken |-> SubSeq(p, 1, n)]

\* res[startIndex+1:]
RemainingOffByOne(r, i) == SubSeq(r, i + 2, Len(r))

\* res[startIndex:]
Remaining(r, i) == SubSeq(r, i + 1, Len(r))

\* what the steps of the response leave alone
ConnFrame ==
    /\ UNCHANGED <<ksVars, clVars>>
    /\ UNCHANGED <<aofVars, snapVars, fsmVars, reaperVars, restoreVars, lateVars>>

\* handleConnection from the return of handleCommand, without error, to
\* the continue that takes the loop to the next message
writeResponse ==
    \* res, err := server.handleCommand(ctx, message, &conn, false)
    \/ /\ cpc = "idle"
       /\ \E n \in 0..MaxRes : res' = [i \in 1..n |-> i]
       /\ startIndex' = 0
       /\ wire' = <<>>
       /\ cpc' = "len"
       /\ loop' = [loop EXCEPT !.last = "ok"]
       /\ ConnFrame
    \* if len(res) == 0 { continue }; if len(res) <= chunkSize { w.Write(res); continue }
    \/ /\ cpc = "len"
       /\ IF Len(res) = 0 THEN cpc' = "continue" /\ UNCHANGED wire
          ELSE IF Len(res) <= chunkSize
               THEN /\ \E n \in 0..Len(res) : wire' = Append(wire, WriteCall(res, n))
                    /\ cpc' = "continue"
               ELSE cpc' = "chunks" /\ UNCHANGED wire
       /\ UNCHANGED <<res, startIndex, loop>>
       /\ ConnFrame
    \* the chunk loop: the remaining bytes when fewer than chunkSize are left
    \* after this one, a chunk otherwise, until a write comes back short
    \/ /\ cpc = "chunks"
       /\ IF Len(res) - 1 - startIndex < chunkSize
          THEN /\ \E n \in 0..Len(Remaining(res, startIndex)) :
                    wire' = Append(wire, WriteCall(Remaining(res, startIndex), n))
               /\ cpc' = "continue"
               /\ UNCHANGED startIndex
          ELSE \E n \in 0..chunkSize :
                 /\ wire' = Append(wire, WriteCall(SubSeq(res, startIndex + 1,
                                                          startIndex + chunkSize), n))
                 /\ IF n < chunkSize
                    THEN cpc' = "continue" /\ UNCHANGED startIndex
                    ELSE startIndex' = startIndex + chunkSize /\ UNCHANGED cpc
       /\ UNCHANGED <<res, loop>>
       /\ ConnFrame
    \* continue: the loop reads the next message
    \/ /\ cpc = "continue"
       /\ cpc' = "idle"
       /\ UNCHANGED <<res, startIndex, wire, loop>>
       /\ ConnFrame

\* the loop takes at most MaxErrors commands that fail
MaxErrors == 2

\* []byte(fmt.Sprintf("-Error %s\r\n", err.Error()))
ErrorLine(e) == <<"-Error ", e, "\r\n">>

\* every error ends the loop
IsError(e) == TRUE

\* errors.Is(err, io.EOF)
IsEOF(e) == e = "EOF"

\* handleConnection: the read of a message, the errors of ReadMessage and
\* of handleCommand, and the end of the connection
handleConnection ==
    \* message, err := utils.ReadMessage(r); if err != nil { log.Println(err); break }
    \/ /\ cpc = "idle"
       /\ \E e \in {"EOF", "read"} : loop' = [loop EXCEPT !.last = e]
       /\ cpc' = "close"
       /\ UNCHANGED <<res, startIndex, wire>>
       /\ ConnFrame
    \* res, err := server.handleCommand(..) with err != nil: break on io.EOF;
    \* otherwise w.Write of the error line, and continue
    \/ /\ cpc = "idle" /\ loop.errors < MaxErrors
       /\ \E e \in {"EOF", "wrong type"} :
            IF IsEOF(e)
            THEN /\ loop' = [loop EXCEPT !.last = e]
                 /\ cpc' = "close"
                 /\ UNCHANGED wire
            ELSE /\ loop' = [loop EXCEPT !.last = e, !.errors = @ + 1]
                 /\ \E n \in 0..Len(ErrorLine(e)) :
                      wire' = <<WriteCall(ErrorLine(e), n)>>
                 /\ cpc' = "continue"
       /\ UNCHANGED <<res, startIndex>>
       /\ ConnFrame
    \* if err := conn.Close(); err != nil { log.Println(err) }
    \/ /\ cpc = "close"
       /\ cpc' = "closed"
       /\ loop' = [loop EXCEPT !.closes = @ + 1]
       /\ UNCHANGED <<res, startIndex, wire>>
       /\ ConnFrame

(* ----------------------------- AOF engine ------------------------------ *)

\* the write command the clients of the AOF engine issue: ZINCRBY k1 1 a
AofCommands == {ZincrbyCmd("k1", "a", 1)}

\* the commands issued so far: those accepted and those on their way to the queue
Issued == Len(accepted) + Cardinality({c \in Clients : pc[c] = "aof_QueueCommand"})

\* an entry of logChan: the raw command, tagged with its origin (history)
LogEntry(c, n, command) == [client |-> c, n |-> n, cmd |-> command]
NoEntry == [client |-> None, n |-> 0, cmd |-> NoCmd]

\* the keyspace after a handler has run command alone on keyspace st
ApplyCommand(st, command) ==
    LET k == command.key
        m == command.members[1]
    IN  IF st[k].kind = "absent"
        THEN [st EXCEPT ![k] = ZSet(NewSortedSet(<<m>>))]
        ELSE IF st[k].kind # "zset" THEN st
        ELSE [st EXCEPT ![k] = ZSet(AddOrUpdate(st[k].set, <<m>>, "xx", None,
                                                FALSE, TRUE).set)]

\* appendStore.Restore: each logged command through handleCommand, in order
RECURSIVE ReplayLog(_, _)
ReplayLog(st, log) ==
    IF log = <<>> THEN st ELSE ReplayLog(ApplyCommand(st, Head(log).cmd), Tail(log))

\* Engine.Restore on an empty keyspace: the preamble, then the append log
Restore(pre, log) == ReplayLog(pre, log)

\* what the steps of the AOF engine leave alone
AofFrame ==
    /\ UNCHANGED <<expireAt, wlock, rlock, keyCreationLock, fatal, now, loc, reply,
                   store0, served>>
    /\ UNCHANGED <<snapVars, fsmVars, reaperVars, restoreVars, connVars, lateVars>>

\* handleCommand in standalone mode: the handler in place, then, on
\* success, the raw command on its way to the AOF queue
aof_handleCommand(c) ==
    \E command \in AofCommands :
        /\ pc[c] = "idle" /\ Issued < MaxIssued
        /\ store' = ApplyCommand(store, command)
        /\ cmd' = [cmd EXCEPT ![c] = command]
        /\ issued' = [issued EXCEPT ![c] = @ + 1]
        /\ pc' = [pc EXCEPT ![c] = "aof_QueueCommand"]
        /\ UNCHANGED <<logChan, appendLog, preamble, mut, RewriteAOFInProgress, wpc,
                       wcmd, rpc, accepted, written, rwLog, ioFailed>>
        /\ AofFrame

\* a send that gives up when the channel is full
QueueCommandOrDrop(c) ==
    /\ pc[c] = "aof_QueueCommand"
    /\ logChan' = IF Len(logChan) < LogChanCap
                  THEN Append(logChan, LogEntry(c, issued[c], cmd[c])) ELSE logChan
    /\ accepted' = IF Len(logChan) < LogChanCap
                   THEN Append(accepted, LogEntry(c, issued[c], cmd[c])) ELSE accepted
    /\ pc' = [pc EXCEPT ![c] = "idle"]
    /\ UNCHANGED <<store, cmd, appendLog, preamble, mut, RewriteAOFInProgress, wpc,
                   wcmd, rpc, issued, written, rwLog, ioFailed>>
    /\ AofFrame

\* engine.logChan <- command: blocks while the channel is full
QueueCommand(c) ==
    /\ pc[c] = "aof_QueueCommand"
    /\ Len(logChan) < LogChanCap
    /\ logChan' = Append(logChan, LogEntry(c, issued[c], cmd[c]))
    /\ accepted' = Append(accepted, LogEntry(c, issued[c], cmd[c]))
    /\ pc' = [pc EXCEPT ![c] = "idle"]
    /\ UNCHANGED <<store, cmd, appendLog, preamble, mut, RewriteAOFInProgress, wpc,
                   wcmd, rpc, issued, written, rwLog, ioFailed>>
    /\ AofFrame

\* the goroutine of NewAOFEngine: for { c := <-engine.logChan; appendStore.Write(c) }
Writer ==
    \* c := <-engine.logChan
    \/ /\ wpc = "receive" /\ logChan # <<>>
       /\ wcmd' = Head(logChan)
       /\ logChan' = Tail(logChan)
       /\ wpc' = "Write"
       /\ UNCHANGED <<store, pc, cmd, appendLog, preamble, mut, RewriteAOFInProgress,
                      rpc, issued, accepted, written, rwLog, ioFailed>>
       /\ AofFrame
    \* engine.appendStore.Write(c); an error is logged and the command is gone
    \/ /\ wpc = "Write"
       /\ \E ok \in BOOLEAN :
            /\ appendLog' = IF ok THEN Append(appendLog, wcmd) ELSE appendLog
            /\ ioFailed' = (ioFailed \/ ~ok)
       /\ written' = Append(written, wcmd)
       /\ wcmd' = NoEntry
       /\ wpc' = "receive"
       /\ UNCHANGED <<store, pc, cmd, logChan, preamble, mut, RewriteAOFInProgress,
                      rpc, issued, accepted, rwLog>>
       /\ AofFrame

\* if server.RewriteAOFInProgress.Load() { return errors.New("aof rewrite in progress") }
RewriteAOFFails == RewriteAOFInProgress

\* server.RewriteAOF: the check of RewriteAOFInProgress, then go RewriteLog()
RewriteAOF(r) ==
    /\ rpc[r] = "idle"
    /\ rpc' = [rpc EXCEPT ![r] = IF RewriteAOFFails THEN "rejected" ELSE "Lock"]
    /\ UNCHANGED <<store, pc, cmd, logChan, appendLog, preamble, mut,
                   RewriteAOFInProgress, wpc, wcmd, issued, accepted, written, rwLog,
                   ioFailed>>
    /\ AofFrame

\* a Lock that does not wait for the holder
MutLockNoWait(r) == mut' = r

\* engine.mut.Lock()
MutLock(r) == mut = None /\ mut' = r

RewriteEvent(r, ev) == rwLog' = Append(rwLog, [r |-> r, ev |-> ev])

\* Engine.RewriteLog, step by step; the deferred calls run last, in reverse
RewriteLog(r) ==
    \* engine.mut.Lock()
    \/ /\ rpc[r] = "Lock"
       /\ MutLock(r)
       /\ rpc' = [rpc EXCEPT ![r] = "startRewrite"]
       /\ UNCHANGED <<store, pc, cmd, logChan, appendLog, preamble,
                      RewriteAOFInProgress, wpc, wcmd, issued, accepted, written,
                      rwLog, ioFailed>>
       /\ AofFrame
    \* engine.startRewrite(): server.StartRewriteAOF
    \/ /\ rpc[r] = "startRewrite"
       /\ RewriteAOFInProgress' = TRUE
       /\ RewriteEvent(r, "startRewrite")
       /\ rpc' = [rpc EXCEPT ![r] = "CreatePreamble"]
       /\ UNCHANGED <<store, pc, cmd, logChan, appendLog, preamble, mut, wpc, wcmd,
                      issued, accepted, written, ioFailed>>
       /\ AofFrame
    \* engine.preambleStore.CreatePreamble(): getState into the preamble file;
    \* an error is logged and the rewrite goes on
    \/ /\ rpc[r] = "CreatePreamble"
       /\ \E ok \in BOOLEAN :
            /\ preamble' = IF ok THEN store ELSE preamble
            /\ ioFailed' = (ioFailed \/ ~ok)
       /\ RewriteEvent(r, "CreatePreamble")
       /\ rpc' = [rpc EXCEPT ![r] = "Truncate"]
       /\ UNCHANGED <<store, pc, cmd, logChan, appendLog, mut, RewriteAOFInProgress,
                      wpc, wcmd, issued, accepted, written>>
       /\ AofFrame
    \* engine.appendStore.Truncate(); an error is logged
    \/ /\ rpc[r] = "Truncate"
       /\ \E ok \in BOOLEAN :
            /\ appendLog' = IF ok THEN <<>> ELSE appendLog
            /\ ioFailed' = (ioFailed \/ ~ok)
       /\ RewriteEvent(r, "Truncate")
       /\ rpc' = [rpc EXCEPT ![r] = "finishRewrite"]
       /\ UNCHANGED <<store, pc, cmd, logChan, preamble, mut, RewriteAOFInProgress,
                      wpc, wcmd, issued, accepted, written>>
       /\ AofFrame
    \* defer engine.finishRewrite(): server.FinishRewriteAOF
    \/ /\ rpc[r] = "finishRewrite"
       /\ RewriteAOFInProgress' = FALSE
       /\ RewriteEvent(r, "finishRewrite")
       /\ rpc' = [rpc EXCEPT ![r] = "Unlock"]
       /\ UNCHANGED <<store, pc, cmd, logChan, appendLog, preamble, mut, wpc, wcmd,
                      issued, accepted, written, ioFailed>>
       /\ AofFrame
    \* defer engine.mut.Unlock()
    \/ /\ rpc[r] = "Unlock"
       /\ mut' = None
       /\ rpc' = [rpc EXCEPT ![r] = "done"]
       /\ UNCHANGED <<store, pc, cmd, logChan, appendLog, preamble,
                      RewriteAOFInProgress, wpc, wcmd, issued, accepted, written,
                      rwLog, ioFailed>>
       /\ AofFrame

\* the commands an append log may hold: ZINCRBY key 1 member
LogCommands == {ZincrbyCmd(k, v, 1) : k \in Keys, v \in Members}

\* the append logs of up to MaxIssued commands
AppendLogs ==
    UNION {{[i \in 1..n |-> LogEntry(None, i, m[i])] : m \in [1..n -> LogCommands]} :
              n \in 0..MaxIssued}

\* a command dispatched as a client's command is
ReplayUnset == FALSE

\* server.handleCommand(context.Background(), command, nil, true): the
\* replay flag the closure of aof.WithHandleCommandFunc passes
Replay == TRUE

\* Server.handleCommand(ctx, command, conn, replay) called by the restore: the
\* handler, run alone, then, unless the command is replayed, QueueCommand
replay_handleCommand(command, replay) ==
    /\ WriteFree(command.key)
    /\ store' = ApplyCommand(store, command)
    /\ IF replay THEN UNCHANGED <<logChan, accepted>>
       ELSE /\ Len(logChan) < LogChanCap
            /\ logChan' = Append(logChan, LogEntry(None, enext, command))
            /\ accepted' = Append(accepted, LogEntry(None, enext, command))

\* what the steps of Engine.Restore leave alone
RestoreFrame ==
    /\ UNCHANGED <<expireAt, rlock, keyCreationLock, fatal, now, clVars>>
    /\ UNCHANGED <<appendLog, preamble, mut, RewriteAOFInProgress, wpc, wcmd, rpc,
                   issued, written, rwLog>>
    /\ UNCHANGED <<snapVars, fsmVars, reaperVars, connVars, lateVars>>

\* Engine.Restore, step by step
EngineRestore ==
    \* the call, at start-up: the preamble file is read
    \/ /\ epc = "idle"
       /\ epc' = "preamble"
       /\ etodo' = {k \in Keys : preamble[k] # Absent}
       /\ UNCHANGED <<store, wlock, logChan, accepted, ioFailed, enext>>
       /\ RestoreFrame
    \* engine.preambleStore.Restore(): the closure of aof.WithSetValueFunc
    \* for the next key, CreateKeyAndLock, SetValue, KeyUnlock; when SetValue
    \* fails the closure returns before KeyUnlock, and the error is logged by
    \* Engine.Restore, which goes on with the append log
    \/ /\ epc = "preamble" /\ etodo # {}
       /\ \E k \in etodo, ok \in BOOLEAN :
            /\ CanCreateKeyAndLock(k)
            /\ IF ok
               THEN /\ store' = [store EXCEPT ![k] = preamble[k]]
                    /\ etodo' = etodo \ {k}
                    /\ UNCHANGED <<wlock, epc, ioFailed>>
               ELSE /\ store' = [store EXCEPT ![k] = IF HasEntry(k) THEN @ ELSE NilVal]
                    /\ wlock' = [wlock EXCEPT ![k] = "restore"]
                    /\ epc' = "append"
                    /\ ioFailed' = TRUE
                    /\ UNCHANGED etodo
       /\ UNCHANGED <<logChan, accepted, enext>>
       /\ RestoreFrame
    \* engine.preambleStore.Restore() returns nil
    \/ /\ epc = "preamble" /\ etodo = {}
       /\ epc' = "append"
       /\ UNCHANGED <<store, wlock, logChan, accepted, ioFailed, etodo, enext>>
       /\ RestoreFrame
    \* engine.appendStore.Restore(): the next command of the log through
    \* engine.handleCommand
    \/ /\ epc = "append" /\ enext <= Len(appendLog)
       /\ replay_handleCommand(appendLog[enext].cmd, Replay)
       /\ enext' = enext + 1
       /\ UNCHANGED <<wlock, ioFailed, epc, etodo>>
       /\ RestoreFrame
    \* engine.appendStore.Restore() returns; return nil
    \/ /\ epc = "append" /\ enext > Len(appendLog)
       /\ epc' = "done"
       /\ UNCHANGED <<store, wlock, logChan, accepted, ioFailed, etodo, enext>>
       /\ RestoreFrame

\* NewAOFEngine: the queue is empty, the writer waits, nothing is being rewritten
NewAOFEngine ==
    /\ logChan = <<>>
    /\ appendLog = <<>>
    /\ preamble = [k \in Keys |-> Absent]
    /\ mut = None
    /\ RewriteAOFInProgress = FALSE
    /\ wpc = "receive"
    /\ wcmd = NoEntry
    /\ rpc = [r \in Rewriters |-> "idle"]
    /\ issued = [c \in Clients |-> 0]
    /\ accepted = <<>>
    /\ written = <<>>
    /\ rwLog = <<>>
    /\ ioFailed = FALSE
    /\ epc = "idle"
    /\ etodo = {}
    /\ enext = 1

(* ----------------------------- Server.Start ---------------------------- *)

\* listener.Accept returns at most MaxConns connections
MaxConns == 2

\* the position of Server.Start and the history it leaves
StartGoto(label, calls) ==
    /\ startPc' = label
    /\ restored' = calls
    /\ UNCHANGED <<conf, conns>>

StartFrame ==
    /\ UNCHANGED <<expireAt, wlock, rlock, keyCreationLock, now>>
    /\ UNCHANGED clVars
    /\ UNCHANGED <<aofVars, snapVars, fsmVars, reaperVars, restoreVars, connVars>>
    /\ UNCHANGED <<raftVars, ps>>

\* a snapshot restore whenever it is enabled
AnySnapshotRestore(cf) == cf.RestoreSnapshot

\* if conf.RestoreSnapshot && !conf.RestoreAOF
RestoresSnapshot(cf) == cf.RestoreSnapshot /\ ~cf.RestoreAOF

\* Server.Start of a server that is not in a cluster
ServerStart ==
    \* server.InitialiseCaches(); if conf.RestoreAOF { server.AOFEngine.Restore() .. }
    \/ /\ startPc = "idle"
       /\ StartGoto(IF conf.RestoreAOF THEN "aof_restore" ELSE "snapshot", restored)
       /\ UNCHANGED <<store, fatal>> /\ StartFrame
    \* err := server.AOFEngine.Restore(), running
    \/ /\ startPc = "aof_restore" /\ epc # "done"
       /\ EngineRestore
    \* it has returned; if err != nil { log.Println(err) }
    \/ /\ startPc = "aof_restore" /\ epc = "done"
       /\ StartGoto("snapshot", Append(restored, "aof"))
       /\ UNCHANGED <<store, fatal>> /\ StartFrame
    \* if conf.RestoreSnapshot && !conf.RestoreAOF { err :=
    \* server.SnapshotEngine.Restore(ctx); if err != nil { log.Println(err) } }:
    \* the keyspace of the snapshot file, or an error and nothing restored
    \/ /\ startPc = "snapshot"
       /\ IF RestoresSnapshot(conf)
          THEN /\ \E ok \in BOOLEAN : store' = IF ok THEN snapshotFile ELSE store
               /\ StartGoto("engine_start", Append(restored, "snapshot"))
          ELSE UNCHANGED store /\ StartGoto("engine_start", restored)
       /\ UNCHANGED fatal /\ StartFrame
    \* server.SnapshotEngine.Start(ctx); server.StartTCP(ctx)
    \/ /\ startPc = "engine_start"
       /\ StartGoto("listen", restored)
       /\ UNCHANGED <<store, fatal>> /\ StartFrame
    \* listener, err := listenConfig.Listen(..); if err != nil { log.Fatal(err) }
    \/ /\ startPc = "listen"
       /\ \E ok \in BOOLEAN :
            IF ok THEN StartGoto("accept", restored) /\ UNCHANGED fatal
            ELSE StartGoto("dead", restored) /\ fatal' = TRUE
       /\ UNCHANGED store /\ StartFrame
    \* for { conn, err := listener.Accept(); if err != nil { continue };
    \* go server.handleConnection(ctx, conn) }
    \/ /\ startPc = "accept" /\ conns < MaxConns
       /\ \E ok \in BOOLEAN : conns' = IF ok THEN conns + 1 ELSE conns
       /\ UNCHANGED <<startPc, conf, restored, store, fatal>> /\ StartFrame

(* --------------------------- snapshot gate ----------------------------- *)

\* no snapshot has been asked for
IdleSnapshot ==
    /\ SnapshotInProgress = FALSE
    /\ spc = [s \in Snapshotters |-> "idle"]
    /\ snapshotFile = [k \in Keys |-> Absent]

SnapFrame ==
    /\ UNCHANGED <<ksVars, clVars>>
    /\ UNCHANGED <<aofVars, fsmVars, reaperVars, restoreVars, connVars, lateVars>>

\* a call that is never turned down
NeverFails == FALSE

\* if server.SnapshotInProgress.Load() { return errors.New("snapshot already in progress") }
TakeSnapshotFails == SnapshotInProgress

\* Server.TakeSnapshot: the check of SnapshotInProgress, then go func() {..}
TakeSnapshot(s) ==
    /\ spc[s] = "idle"
    /\ spc' = [spc EXCEPT ![s] = IF TakeSnapshotFails THEN "rejected" ELSE "go"]
    /\ UNCHANGED <<SnapshotInProgress, snapshotFile>>
    /\ SnapFrame

\* the handler of bgsave, on a connection: if err := server.TakeSnapshot();
\* err != nil { return nil, err }; return OK
handleBGSAVE(c) ==
    /\ ~fatal /\ pc[c] = "idle"
    /\ \E s \in Snapshotters :
         /\ spc[s] = "idle"
         /\ spc' = [spc EXCEPT ![s] = IF TakeSnapshotFails THEN "rejected" ELSE "go"]
    /\ reply' = [reply EXCEPT ![c] = IF TakeSnapshotFails THEN ErrReply ELSE OkReply]
    /\ cmd' = [cmd EXCEPT ![c] = [NoCmd EXCEPT !.name = "bgsave"]]
    /\ pc' = [pc EXCEPT ![c] = "done"]
    /\ UNCHANGED <<ksVars, loc, store0, served, SnapshotInProgress, snapshotFile>>
    /\ UNCHANGED <<aofVars, fsmVars, reaperVars, restoreVars, connVars, lateVars>>

\* Server.StartSnapshot
StartSnapshot == SnapshotInProgress' = TRUE

\* Server.FinishSnapshot
FinishSnapshot == SnapshotInProgress' = FALSE

\* the goroutine of TakeSnapshot: SnapshotEngine.TakeSnapshot()
SnapshotTask(s) ==
    \* StartSnapshot()
    \/ /\ spc[s] = "go"
       /\ StartSnapshot
       /\ spc' = [spc EXCEPT ![s] = "write"]
       /\ UNCHANGED snapshotFile
       /\ SnapFrame
    \* GetState() into the snapshot file; an error is returned and logged
    \/ /\ spc[s] = "write"
       /\ \E ok \in BOOLEAN : snapshotFile' = IF ok THEN store ELSE snapshotFile
       /\ spc' = [spc EXCEPT ![s] = "FinishSnapshot"]
       /\ UNCHANGED SnapshotInProgress
       /\ SnapFrame
    \* defer FinishSnapshot()
    \/ /\ spc[s] = "FinishSnapshot"
       /\ FinishSnapshot
       /\ spc' = [spc EXCEPT ![s] = "done"]
       /\ UNCHANGED snapshotFile
       /\ SnapFrame

(* ------------------------------ Raft FSM ------------------------------- *)

\* utils.KeyData of a snapshot; NoData: the key is not in the snapshot
KeyData(v, t) == [value |-> v, expireAt |-> t]
NoData == KeyData(Absent, 0)

\* the snapshots FSM.Restore is given: per key nothing, or a sorted set
\* without expiry, or with a deadline in the past or in the future
SnapshotStates ==
    [Keys -> {NoData} \cup {KeyData(ZSet({MemberParam("b", 1)}), t) : t \in 0..MaxTime}]

\* utils.FilterExpiredKeys: the keys of state whose deadline has not passed
FilterExpiredKeys(state) ==
    {k \in Keys : state[k] # NoData /\ (state[k].expireAt = 0 \/ state[k].expireAt > now)}

\* set_expiry(k, deadline, touch_only)
SetExpiry(k, t) == expireAt' = [expireAt EXCEPT ![k] = t]

IdleFSM ==
    /\ snap = [k \in Keys |-> NoData]
    /\ fpc = "idle"
    /\ ftodo = {}
    /\ fkey = None

FsmFrame ==
    /\ UNCHANGED <<rlock, now, clVars>>
    /\ UNCHANGED <<aofVars, snapVars, reaperVars, restoreVars, connVars, lateVars>>

\* json.Unmarshal(b, &data) for a KeyData.Value, which is an interface{}: a
\* JSON string comes back as a string, a JSON object as a
\* map[string]interface{}, whatever type was marshalled
JsonUnmarshal(v) == IF v.kind = "zset" THEN [kind |-> "map", set |-> v.set] ELSE v

\* FSM.Snapshot: NewFSMSnapshot over Server.GetState(), persisted as JSON
FSMSnapshot ==
    /\ ~fatal /\ fpc = "up"
    /\ snap' = [k \in Keys |-> IF HasEntry(k) THEN KeyData(store[k], expireAt[k])
                               ELSE NoData]
    /\ fpc' = "snapshot"
    /\ UNCHANGED <<store, expireAt, wlock, keyCreationLock, fatal, ftodo, fkey>>
    /\ FsmFrame

\* NewServer on the node that is sent the snapshot: an empty store
NewReplica ==
    /\ ~fatal /\ fpc = "snapshot"
    /\ store' = [k \in Keys |-> Absent]
    /\ expireAt' = [k \in Keys |-> 0]
    /\ fpc' = "idle"
    /\ UNCHANGED <<wlock, keyCreationLock, fatal, snap, ftodo, fkey>>
    /\ FsmFrame

\* FSM.Restore, step by step
FSMRestore ==
    \* io.ReadAll and json.Unmarshal: log.Fatal on error
    \/ /\ ~fatal /\ fpc = "idle"
       /\ \E ok \in BOOLEAN :
            IF ok THEN /\ snap' = [k \in Keys |->
                                     [snap[k] EXCEPT !.value = JsonUnmarshal(@)]]
                       /\ ftodo' = FilterExpiredKeys(snap)
                       /\ fpc' = "range"
                       /\ UNCHANGED fatal
            ELSE fatal' = TRUE /\ UNCHANGED <<snap, ftodo, fpc>>
       /\ UNCHANGED <<store, expireAt, wlock, keyCreationLock, fkey>>
       /\ FsmFrame
    \* for k, v := range utils.FilterExpiredKeys(data.State): in any order;
    \* after the loop, SetLatestSnapshot and return nil
    \/ /\ ~fatal /\ fpc = "range"
       /\ IF ftodo = {}
          THEN fpc' = "done" /\ UNCHANGED <<ftodo, fkey>>
          ELSE \E k \in ftodo :
                 /\ fkey' = k
                 /\ ftodo' = ftodo \ {k}
                 /\ fpc' = "CreateKeyAndLock"
       /\ UNCHANGED <<store, expireAt, wlock, keyCreationLock, fatal, snap>>
       /\ FsmFrame
    \* fsm.options.Server.CreateKeyAndLock(ctx, k): the creation lock
    \/ /\ ~fatal /\ fpc = "CreateKeyAndLock"
       /\ keyCreationLock = None
       /\ keyCreationLock' = "fsm"
       /\ fpc' = "CreateKeyAndLock2"
       /\ UNCHANGED <<store, expireAt, wlock, fatal, snap, ftodo, fkey>>
       /\ FsmFrame
    \* fsm.options.Server.CreateKeyAndLock(ctx, k): the entry and its lock
    \/ /\ ~fatal /\ fpc = "CreateKeyAndLock2"
       /\ CanCreateKeyAndLock(fkey)
       /\ CreateKeyAndLock("fsm", fkey)
       /\ fpc' = "SetValue"
       /\ UNCHANGED <<expireAt, fatal, snap, ftodo, fkey>>
       /\ FsmFrame
    \* fsm.options.Server.SetValue(ctx, k, v.Value): log.Fatal on error
    \/ /\ ~fatal /\ fpc = "SetValue"
       /\ \E ok \in BOOLEAN :
            IF ok THEN /\ SetValue(fkey, snap[fkey].value)
                       /\ fpc' = "SetExpiry"
                       /\ UNCHANGED fatal
            ELSE fatal' = TRUE /\ UNCHANGED <<store, fpc>>
       /\ UNCHANGED <<expireAt, wlock, keyCreationLock, snap, ftodo, fkey>>
       /\ FsmFrame
    \* fsm.options.Server.SetExpiry(ctx, k, v.ExpireAt, false)
    \/ /\ ~fatal /\ fpc = "SetExpiry"
       /\ SetExpiry(fkey, snap[fkey].expireAt)
       /\ fpc' = "KeyUnlock"
       /\ UNCHANGED <<store, wlock, keyCreationLock, fatal, snap, ftodo, fkey>>
       /\ FsmFrame
    \* fsm.options.Server.KeyUnlock(ctx, k)
    \/ /\ ~fatal /\ fpc = "KeyUnlock"
       /\ KeyUnlock("fsm", fkey)
       /\ fpc' = "range"
       /\ UNCHANGED <<store, expireAt, keyCreationLock, snap, ftodo, fkey>>
       /\ FsmFrame

(* ------------------------------ FSM.Apply ------------------------------ *)

\* the FSM applies at most MaxLog entries
MaxLog == 2

\* strings.ToLower(request.Type)
ToLower(t) == IF t = "DELETE-KEY" THEN "delete-key" ELSE t

\* the commands of the log entries: sorted-set commands on k1, a command
\* with a subcommand, with and without it, and a name that is not registered
ApplyCommands ==
    {ZincrbyCmd("k1", v, 1) : v \in Members}
    \cup {RangeCmd("zremrangebyrank", "k1", <<>>, [start |-> 0, stop |-> 0])}
    \cup {RangeCmd(name, "k1", <<>>, [count |-> 1]) : name \in {"zpopmin", "zpopmax"}}
    \cup {RangeCmd("acl", None, <<>>, [sub |-> sub]) : sub \in {"whoami", None}}
    \cup {RangeCmd("nosuch", None, <<>>, <<>>)}

\* log.Data: bytes that are no JSON, or an ApplyRequest
ApplyRequests ==
    {[decodes |-> FALSE, Type |-> None, Key |-> None, CMD |-> NoCmd]}
    \cup {[decodes |-> TRUE, Type |-> t, Key |-> k, CMD |-> NoCmd] :
             t \in {"delete-key", "DELETE-KEY", "set"}, k \in Keys}
    \cup {[decodes |-> TRUE, Type |-> "command", Key |-> None, CMD |-> command] :
             command \in ApplyCommands}

\* fsm.options.GetCommand(request.CMD[0]): the registered commands
GetCommand(name) == name \in {"zincrby", "zremrangebyrank", "zpopmin", "zpopmax", "acl"}

\* a command whose handler is always that of the command itself
NoSubCommand(command) == None

\* utils.GetSubCommand(command, request.CMD): the subcommand the second token
\* names, if the command has one of that name
GetSubCommand(command) ==
    IF command.name = "acl" /\ command.args.sub = "whoami" THEN "acl|whoami" ELSE None

\* handler := command.HandlerFunc; if ok { handler = subCommand.HandlerFunc }
Handler(command) ==
    IF GetSubCommand(command) # None THEN GetSubCommand(command) ELSE command.name

\* fsm.options.DeleteKey(ctx, key) on keyspace st: the write lock of a key
\* that is missing is an error; otherwise the key is removed
DeleteKey(st, k) ==
    IF st[k] = Absent THEN [store |-> st, out |-> ErrReply]
    ELSE [store |-> [st EXCEPT ![k] = Absent], out |-> OkReply]

\* handleZINCRBY run to its end on keyspace st
ZINCRBY(st, command) ==
    IF st[command.key].kind \notin {"absent", "zset"}
    THEN {[store |-> st, out |-> ErrReply]}
    ELSE LET after == ApplyCommand(st, command)
         IN {[store |-> after,
              out |-> ScoreReply(Get(after[command.key].set,
                                     command.members[1].value).score)]}

\* handleZREMRANGEBYRANK run to its end on keyspace st
ZREMRANGEBYRANK(st, command) ==
    LET k == command.key
        n == Cardinality(st[k].set)
        start == RankIndex(command.args.start, n)
        stop == RankIndex(command.args.stop, n)
        lo == IF start < stop THEN start ELSE stop
        hi == IF start < stop THEN stop ELSE start
    IN  IF st[k] = Absent THEN {[store |-> st, out |-> IntReply(0)]}
        ELSE IF \/ st[k].kind # "zset"
                \/ start < 0 \/ start > n - 1 \/ stop < 0 \/ stop > n - 1
             THEN {[store |-> st, out |-> ErrReply]}
             ELSE {[store |-> [st EXCEPT ![k] =
                                  ZSet(st[k].set \ {members[i + 1] : i \in lo..hi})],
                    out |-> IntReply(hi - lo + 1)] : members \in SortFunc(st[k].set, FALSE)}

\* handleZPOP run to its end on keyspace st
ZPOP(st, command) ==
    LET k == command.key
    IN  IF st[k] = Absent THEN {[store |-> st, out |-> ArrayReply(<<>>)]}
        ELSE IF st[k].kind # "zset" THEN {[store |-> st, out |-> ErrReply]}
        ELSE UNION {{[store |-> [st EXCEPT ![k] = ZSet(r.rest)], out |-> ArrayReply(members)] :
                        members \in GetAll({r.popped[i] : i \in 1..Len(r.popped)})} :
                     r \in Pop(st[k].set, command.args.count, PopPolicy(command.name))}

\* res, err := handler(ctx, request.CMD, fsm.options.Server, nil)
RunHandler(handler, st, command) ==
    CASE handler = "zincrby" -> ZINCRBY(st, command)
      [] handler = "zremrangebyrank" -> ZREMRANGEBYRANK(st, command)
      [] handler \in {"zpopmin", "zpopmax"} -> ZPOP(st, command)
      [] handler = "acl|whoami" -> {[store |-> st, out |-> OkReply]}
      [] OTHER -> {[store |-> st, out |-> ErrReply]}

\* utils.ApplyResponse{Error: err, Response: res}; NoReply stands for nil
ApplyResponse(err, response) == [Error |-> err, Response |-> response]

\* an error returns ApplyResponse{Error: err, Response: nil}, a result
\* ApplyResponse{Error: nil, Response: res}
ResponseOf(out) ==
    IF out.kind = "err" THEN ApplyResponse(out, NoReply) ELSE ApplyResponse(NoReply, out)

\* FSM.Apply of a raft.LogCommand entry on keyspace st: the keyspace it
\* leaves, the handler it ran with what that returned, and what it returns
Apply(st, request) ==
    IF ~request.decodes
    THEN {[store |-> st, ran |-> None, out |-> NoReply, resp |-> ApplyResponse(ErrReply, NoReply)]}
    ELSE CASE ToLower(request.Type) = "delete-key" ->
                LET d == DeleteKey(st, request.Key)
                IN {[store |-> d.store, ran |-> "DeleteKey", out |-> d.out,
                     resp |-> IF d.out.kind = "err" THEN ApplyResponse(d.out, NoReply)
                              ELSE ApplyResponse(NoReply, OkReply)]}
           [] ToLower(request.Type) = "command" ->
                IF ~GetCommand(request.CMD.name)
                THEN {[store |-> st, ran |-> None, out |-> NoReply,
                       resp |-> ApplyResponse(ErrReply, NoReply)]}
                ELSE {[store |-> o.store, ran |-> Handler(request.CMD), out |-> o.out,
                       resp |-> ResponseOf(o.out)] :
                         o \in RunHandler(Handler(request.CMD), st, request.CMD)}
           [] OTHER ->
                {[store |-> st, ran |-> None, out |-> NoReply,
                  resp |-> ApplyResponse(ErrReply, NoReply)]}

RaftFrame ==
    /\ UNCHANGED <<wlock, rlock, keyCreationLock, fatal, now>>
    /\ UNCHANGED clVars
    /\ UNCHANGED <<aofVars, snapVars, fsmVars, reaperVars, restoreVars, connVars>>
    /\ UNCHANGED <<startVars, ps>>

\* raft commits the next entry
Commit ==
    /\ Len(raftLog) < MaxLog
    /\ \E request \in ApplyRequests : raftLog' = Append(raftLog, request)
    /\ UNCHANGED <<store, expireAt, lastApplied, responses, peer>>
    /\ RaftFrame

\* this server's FSM applies the next committed entry
FSMApply ==
    /\ lastApplied < Len(raftLog)
    /\ LET request == raftLog[lastApplied + 1]
       IN \E o \in Apply(store, request) :
            /\ store' = o.store
            /\ expireAt' = [k \in Keys |-> IF o.store[k] = Absent THEN 0 ELSE expireAt[k]]
            /\ responses' = Append(responses, [request |-> request, before |-> store,
                                               ran |-> o.ran, out |-> o.out,
                                               resp |-> o.resp])
    /\ lastApplied' = lastApplied + 1
    /\ UNCHANGED <<raftLog, peer>>
    /\ RaftFrame

\* the other replica's FSM applies its next committed entry
PeerApply ==
    /\ Len(peer.responses) < Len(raftLog)
    /\ LET request == raftLog[Len(peer.responses) + 1]
       IN \E o \in Apply(peer.store, request) :
            peer' = [store |-> o.store, responses |-> Append(peer.responses, o.resp)]
    /\ UNCHANGED <<store, expireAt, raftLog, lastApplied, responses>>
    /\ RaftFrame

(* ------------------------------- Pub/Sub ------------------------------- *)

ChannelNames == {"news", "jobs"}
GroupNames == {"g1", "g2"}

\* NewChannel(name)
NewChannel(name) == [name |-> name, subscribers |-> {}, consumerGroups |-> {}]

PubSubFrame ==
    /\ UNCHANGED <<ksVars, clVars>>
    /\ UNCHANGED <<aofVars, snapVars, fsmVars, reaperVars, restoreVars, connVars>>
    /\ UNCHANGED <<startVars, raftVars>>

\* the caller's position and arguments, and the container
PubSubGoto(c, label, name, group, channels) ==
    ps' = [channels |-> channels,
           call |-> [ps.call EXCEPT ![c] = [pc |-> label, name |-> name, group |-> group]]]

\* Channel.Subscribe(conn, consumerGroupName) reaches newGroup.Start()
StartsGroup(ch, group) == group # None /\ group \notin {g.name : g \in ch.consumerGroups}

\* Channel.Subscribe(conn, consumerGroupName) when it returns: the channel
\* with conn among its subscribers, or among those of the groups of that name
Channel_Subscribe(ch, conn, group) ==
    IF group = None THEN [ch EXCEPT !.subscribers = @ \cup {conn}]
    ELSE [ch EXCEPT !.consumerGroups =
             {IF g.name = group THEN [g EXCEPT !.subscribers = @ \cup {conn}] ELSE g :
                 g \in @}]

\* PubSub.Subscribe(conn, channelName, consumerGroup), called by connection c
PubSub_Subscribe(c) ==
    \* the call
    \/ /\ ps.call[c].pc = "idle"
       /\ \E name \in ChannelNames \cup {None}, group \in GroupNames \cup {None} :
            PubSubGoto(c, "Subscribe", name, group, ps.channels)
       /\ PubSubFrame
    \* no channel name: every channel's Subscribe(conn, nil), and return;
    \* no channel of that name: newChan := NewChannel(name); newChan.Start(),
    \* which is the loop for { message := <-*ch.messageChan; .. } on a channel
    \* that nobody else has; otherwise Subscribe(conn, consumerGroup) of the
    \* channels of that name, which starts a new group the same way
    \/ /\ ps.call[c].pc = "Subscribe"
       /\ LET name == ps.call[c].name
              group == ps.call[c].group
              named == {ch \in ps.channels : ch.name = name}
          IN  IF name = None
              THEN PubSubGoto(c, "returned", name, group,
                              {Channel_Subscribe(ch, c, None) : ch \in ps.channels})
              ELSE IF named = {}
                   THEN PubSubGoto(c, "Channel_Start", name, group, ps.channels)
                   ELSE IF \E ch \in named : StartsGroup(ch, group)
                        THEN PubSubGoto(c, "ConsumerGroup_Start", name, group, ps.channels)
                        ELSE PubSubGoto(c, "returned", name, group,
                                        {IF ch \in named
                                         THEN Channel_Subscribe(ch, c, group) ELSE ch :
                                            ch \in ps.channels})
       /\ PubSubFrame

\* PubSub.Publish(message, channelName), called by connection c
PubSub_Publish(c) ==
    \* the call
    \/ /\ ps.call[c].pc = "idle"
       /\ \E name \in ChannelNames \cup {None} :
            PubSubGoto(c, "Publish", name, None, ps.channels)
       /\ PubSubFrame
    \* channel.Publish(message) for the channels of the container that are
    \* meant: *ch.messageChan <- message; with none of them, return
    \/ /\ ps.call[c].pc = "Publish"
       /\ LET name == ps.call[c].name
          IN  IF \E ch \in ps.channels : name = None \/ ch.name = name
              THEN PubSubGoto(c, "Channel_Publish", name, None, ps.channels)
              ELSE PubSubGoto(c, "returned", name, None, ps.channels)
       /\ PubSubFrame

\* the caller goes on after the call has returned
PubSub_Returned(c) ==
    /\ ps.call[c].pc = "returned"
    /\ PubSubGoto(c, "idle", None, None, ps.channels)
    /\ PubSubFrame

(* ------------------------------ TTL reaper ------------------------------ *)

IdleReaper ==
    /\ evictionPolicy = "noeviction"
    /\ srvPc = "up"
    /\ reaperPc = "off"

ReaperFrame ==
    /\ UNCHANGED <<wlock, rlock, keyCreationLock, fatal, clVars>>
    /\ UNCHANGED <<aofVars, snapVars, fsmVars, restoreVars, connVars, lateVars>>

\* NewServer, its last statement: the eviction goroutine is started unless
\* the policy is noeviction
NewServer ==
    /\ srvPc = "new"
    /\ srvPc' = "up"
    /\ reaperPc' = IF evictionPolicy # "noeviction" THEN "sleep" ELSE "off"
    /\ UNCHANGED <<store, expireAt, now, evictionPolicy>>
    /\ ReaperFrame

\* time passes
Tick ==
    /\ now < MaxTime
    /\ now' = now + 1
    /\ UNCHANGED <<store, expireAt, reaperVars>>
    /\ ReaperFrame

\* evictKeysWithExpiredTTL: each key whose deadline has passed is write-locked,
\* unless its lock is taken, and deleted
evictKeysWithExpiredTTL ==
    LET victims == {k \in Keys : HasEntry(k) /\ Expired(k) /\ WriteFree(k)}
    IN  /\ store' = [k \in Keys |-> IF k \in victims THEN Absent ELSE store[k]]
        /\ expireAt' = [k \in Keys |-> IF k \in victims THEN 0 ELSE expireAt[k]]

\* the eviction goroutine: for { <-time.After(EvictionInterval); evictKeysWithExpiredTTL() }
Reaper ==
    \* <-time.After(server.Config.EvictionInterval)
    \/ /\ reaperPc = "sleep"
       /\ reaperPc' = "evict"
       /\ UNCHANGED <<store, expireAt, now, evictionPolicy, srvPc>>
       /\ ReaperFrame
    \* server.evictKeysWithExpiredTTL(context.Background())
    \/ /\ reaperPc = "evict"
       /\ evictKeysWithExpiredTTL
       /\ reaperPc' = "sleep"
       /\ UNCHANGED <<now, evictionPolicy, srvPc>>
       /\ ReaperFrame

(* -------------------- the keyspace under its clients ------------------- *)

\* the values a key may hold when the clients start
InitValues ==
    {Absent, StringVal, ZSet({}), ZSet({MemberParam("a", 1)})}

InitKeyspace ==
    /\ store \in [Keys -> InitValues]
    /\ expireAt = [k \in Keys |-> 0]
    /\ wlock = [k \in Keys |-> None]
    /\ rlock = [k \in Keys |-> [c \in Clients |-> 0]]
    /\ keyCreationLock = None
    /\ fatal = FALSE
    /\ now = 0

\* Server.Start has not been called
NotStarted ==
    /\ startPc = "idle"
    /\ conf = [RestoreAOF |-> FALSE, RestoreSnapshot |-> FALSE]
    /\ restored = <<>>
    /\ conns = 0

\* no connection has sent a command
IdleConns ==
    /\ pc = [c \in Clients |-> "idle"]
    /\ cmd = [c \in Clients |-> NoCmd]
    /\ loc = [c \in Clients |-> NoLoc]
    /\ reply = [c \in Clients |-> NoReply]
    /\ store0 = store
    /\ served = [c \in Clients |-> <<>>]
    /\ cpc = "idle" /\ res = <<>> /\ startIndex = 0 /\ wire = <<>>
    /\ loop = [last |-> None, errors |-> 0, closes |-> 0]

\* no log entry has been committed
NoRaftLog ==
    /\ raftLog = <<>>
    /\ lastApplied = 0
    /\ responses = <<>>
    /\ peer = [store |-> [k \in Keys |-> Absent], responses |-> <<>>]

\* &PubSub{}: no channel, no caller
NewPubSub ==
    ps = [channels |-> {},
          call |-> [c \in Clients |-> [pc |-> "idle", name |-> None, group |-> None]]]

InitClients == IdleConns /\ NotStarted /\ NoRaftLog /\ NewPubSub

Init == InitKeyspace /\ InitClients /\ NewAOFEngine /\ IdleSnapshot /\ IdleFSM /\ IdleReaper

\* each client runs one command, from any keyspace of InitValues
Next ==
    \E c \in Clients :
        \/ Start_ZADD(c) \/ handleZADD(c)
        \/ Start_ZINCRBY(c) \/ handleZINCRBY(c)
        \/ Start_ZDIFFSTORE(c) \/ handleZDIFFSTORE(c)
        \/ Start_ZINTERSTORE(c) \/ handleZINTERSTORE(c)
        \/ Start_ZUNIONSTORE(c) \/ handleZUNIONSTORE(c)

vars == <<ksVars, clVars, aofVars, snapVars, fsmVars, reaperVars, restoreVars, connVars,
          lateVars>>

Spec == Init /\ [][Next]_vars

(* ------------------- properties of the keyspace handlers --------------- *)

\* the locks client c holds
HeldBy(c) == {k \in Keys : wlock[k] = c \/ rlock[k][c] > 0}

\* C1: every handler has, by the time it returns, released every per-key
\* read or write lock it acquired, on the success path and on every error path
C1_LocksReleasedOnReturn ==
    \A c \in Clients : pc[c] = "done" => HeldBy(c) = {}

\* the positions at which a handler issues SetValue, and KeyUnlock, on cmd.key
SetValueSteps ==
    {"zadd_SetValue", "zincrby_SetValue", "zdiffstore_SetValue",
     "zinterstore_SetValue", "zunionstore_SetValue"}

KeyUnlockSteps ==
    {"zadd_KeyUnlock", "zincrby_KeyUnlockNew", "zincrby_KeyUnlock",
     "zdiffstore_KeyUnlock", "zinterstore_KeyUnlock", "zunionstore_KeyUnlock"}

\* C2: a handler about to issue SetValue(k, v) or KeyUnlock(k) holds the
\* write lock of k, for every computed result of the *STORE handlers
C2_WritesUnderWriteLock ==
    \A c \in Clients :
        pc[c] \in SetValueSteps \cup KeyUnlockSteps => wlock[cmd[c].key] = c

\* both clients have returned success from ZADD or ZINCRBY on the same,
\* initially absent key, each with a different member
BothCreated(k) ==
    \A c \in Clients :
        /\ pc[c] = "done"
        /\ cmd[c].name \in {"zadd", "zincrby"}
        /\ cmd[c].key = k
        /\ reply[c].kind # "err"

DifferentMembers ==
    \A c, d \in Clients : c # d => cmd[c].members[1].value # cmd[d].members[1].value

\* C3: two clients that ran ZADD (or ZINCRBY) on the same initially absent
\* key, each with a different member, both returned success: the sorted set
\* at that key contains both members
C3_ConcurrentCreateKeepsBoth ==
    \A k \in Keys :
        (store0[k] = Absent /\ BothCreated(k) /\ DifferentMembers)
            => /\ store[k].kind = "zset"
               /\ \A c \in Clients : Contains(store[k].set, cmd[c].members[1].value)

StoreCommands == {"zdiffstore", "zinterstore", "zunionstore"}

\* the sorted set at key k in keyspace st; an absent key reads as the empty set
SetAt(st, k) == IF st[k].kind = "zset" THEN st[k].set ELSE {}

\* the result of a *STORE command over keyspace st
StoreResult(command, st) ==
    LET ks == command.keys
        params == [i \in 1..Len(ks) |-> SetParam(SetAt(st, ks[i]), command.weights[i])]
    IN  CASE command.name = "zdiffstore" ->
               Subtract(SetAt(st, ks[1]), [i \in 1..(Len(ks) - 1) |-> SetAt(st, ks[i + 1])])
          [] command.name = "zinterstore" -> Intersect(command.aggregate, params)
          [] OTHER -> Union(command.aggregate, params)

\* client c alone ran a *STORE command that returned an integer
StoreReturned(c) ==
    /\ pc[c] = "done"
    /\ cmd[c].name \in StoreCommands
    /\ reply[c].kind = "int"
    /\ \A d \in Clients \ {c} : pc[d] = "idle"

\* what handleZCARD replies for key k when it runs alone in this state
ZCARD(k) ==
    IF ~KeyExists(k) THEN IntReply(0)
    ELSE IF store[k].kind # "zset" THEN ErrReply
    ELSE IntReply(Cardinality(store[k].set))

\* C4: after a *STORE command returns integer n, destination holds exactly
\* the computed result set, whatever it held before, and ZCARD destination
\* returns n
C4_StoreLeavesResult ==
    \A c \in Clients :
        StoreReturned(c) =>
            /\ store[cmd[c].key].kind \in {"absent", "zset"}
            /\ SetAt(store, cmd[c].key) = StoreResult(cmd[c], store0)
            /\ ZCARD(cmd[c].key) = IntReply(reply[c].n)

\* the keys that appear more than once in the key list of the command
Repeated(command) ==
    {command.keys[i] : i \in {i \in 1..Len(command.keys) :
                                 \E j \in 1..Len(command.keys) :
                                    i # j /\ command.keys[i] = command.keys[j]}}

\* C35: in the multi-key handlers a key that appears more than once in the
\* key list is read-unlocked exactly as many times as it was read-locked, so
\* after the handler has returned a writer can acquire that key's write lock
C35_RepeatedKeyUnlocked ==
    \A c \in Clients :
        (pc[c] = "done" /\ cmd[c].name \in {"zinterstore", "zunionstore"}) =>
            \A k \in Repeated(cmd[c]) : rlock[k][c] = 0

\* connection c is at the request for the write lock of its destination
AtDestinationLock(c) ==
    pc[c] \in {"zdiffstore_KeyLock", "zdiffstore_CreateKeyAndLock2",
               "zrangestore_KeyLock", "zrangestore_CreateKeyAndLock2"}

\* C36: ZRANGESTORE and ZDIFFSTORE always terminate with a reply when the
\* destination names the same key as a source key that exists: the handler
\* never waits for the write lock of a key whose read lock it is itself
\* still holding
C36_NoWaitOnOwnReadLock ==
    \A c \in Clients :
        AtDestinationLock(c) => ~(HasEntry(cmd[c].key) /\ rlock[cmd[c].key][c] > 0)

\* connection c waits for the write lock of its destination, which it does
\* not read itself and on which connection d holds a read lock
WaitsFor(c, d) ==
    /\ pc[c] \in {"zunionstore_KeyLock", "zinterstore_KeyLock"}
    /\ HasEntry(cmd[c].key)
    /\ rlock[cmd[c].key][c] = 0
    /\ rlock[cmd[c].key][d] > 0

\* C37: concurrently executing multi-key commands complete without deadlock
\* whatever keys they name: two *STORE commands whose source and destination
\* keys are crossed never wait for each other
C37_NoCrossedWait ==
    \A c, d \in Clients : c # d => ~(WaitsFor(c, d) /\ WaitsFor(d, c))

(* ------------------- ZADD and ZINCRBY on one connection ---------------- *)

\* the connection whose commands are looked at one at a time
Solo == {"c1"}

InitZadd ==
    /\ InitKeyspace /\ store["k2"] = Absent
    /\ InitClients
    /\ NewAOFEngine /\ IdleSnapshot /\ IdleFSM /\ IdleReaper

NextZadd ==
    \E c \in Solo :
        \/ parseZADD(c) \/ handleZADD(c)
        \/ Start_ZINCRBY(c) \/ handleZINCRBY(c)

SpecZadd == InitZadd /\ [][NextZadd]_vars

\* client c has run command name to its end and got no error
Succeeded(c, name) ==
    pc[c] = "done" /\ cmd[c].name = name /\ reply[c].kind # "err"

\* the score of member v at key k of keyspace st, 0 when there is none
ScoreAt(st, k, v) == Get(SetAt(st, k), v).score

\* C11: after ZINCRBY key d member returns successfully, the member's score
\* is old + d, where old is its previous score, or 0 when the member or the
\* key did not exist (an absent member is created), and the reply carries
\* exactly that new score
C11_ZincrbyAddsToOldScore ==
    \A c \in Solo :
        Succeeded(c, "zincrby") =>
            LET k == cmd[c].key
                m == cmd[c].members[1]
                new == ScoreAt(store0, k, m.value) + m.score
            IN  /\ Contains(SetAt(store, k), m.value)
                /\ ScoreAt(store, k, m.value) = new
                /\ reply[c] = ScoreReply(new)

\* C12: ZADD with XX never adds a member that was not in the sorted set,
\* whether or not the key existed, and its integer reply counts only the
\* members added, or added and updated with CH
C12_ZaddXXNeverAdds ==
    \A c \in Solo :
        (Succeeded(c, "zadd") /\ cmd[c].updatePolicy = "xx" /\ ~cmd[c].incr) =>
            LET k == cmd[c].key
                r == AddOrUpdate(SetAt(store0, k), cmd[c].members, cmd[c].updatePolicy,
                                 cmd[c].comparison, cmd[c].changed, cmd[c].incr)
            IN  /\ \A e \in SetAt(store, k) : Contains(SetAt(store0, k), e.value)
                /\ reply[c] = IntReply(r.count)

\* C13: ZADD with INCR replies with the member's resulting score, not a
\* count, whenever it succeeds, also when the key did not exist before
C13_ZaddIncrRepliesScore ==
    \A c \in Solo :
        (Succeeded(c, "zadd") /\ cmd[c].incr) =>
            reply[c] = ScoreReply(ScoreAt(store, cmd[c].key, cmd[c].members[1].value))

\* the option words of command contain word
HasOption(command, word) ==
    \E i \in 1..Len(command.args) : command.args[i] = word

\* C14: ZADD is rejected with an error, and the keyspace is left unchanged
\* with no lock held, when NX is combined with GT or LT in either order of
\* appearance, and when INCR comes with more than one score/member pair
C14_ZaddRejectsBadOptions ==
    \A c \in Solo :
        (/\ pc[c] = "done" /\ cmd[c].name = "zadd"
         /\ \/ HasOption(cmd[c], "nx") /\ (HasOption(cmd[c], "gt") \/ HasOption(cmd[c], "lt"))
            \/ HasOption(cmd[c], "incr") /\ Len(cmd[c].members) > 1)
            => /\ reply[c] = ErrReply
               /\ store = store0
               /\ HeldBy(c) = {}

(* ---------------- ZADD, then ZRANGE or ZRANGESTORE --------------------- *)

\* no key k1 yet; k2 absent or a sorted set
InitRange ==
    /\ InitKeyspace
    /\ store["k1"] = Absent
    /\ store["k2"] \in {Absent, ZSet({MemberParam("a", 1)})}
    /\ InitClients
    /\ NewAOFEngine /\ IdleSnapshot /\ IdleFSM /\ IdleReaper

NextRange ==
    \E c \in Solo :
        \/ Start_Range(c) \/ NextCommand(c)
        \/ handleZADD(c) \/ handleZRANGE(c) \/ handleZRANGESTORE(c)

SpecRange == InitRange /\ [][NextRange]_vars

\* ZADD k1 1 a 2 b 3 c
ZaddABC ==
    ZaddCmd("k1", <<MemberParam("a", 1), MemberParam("b", 2), MemberParam("c", 3)>>)

\* client c has had ZRANGE key 0 -1 [WITHSCORES] answered
RangedAll(c) ==
    /\ Succeeded(c, "zrange")
    /\ cmd[c].args.start = 0 /\ cmd[c].args.stop = -1
    /\ ~cmd[c].args.reverse
    /\ cmd[c].args.offset = 0 /\ cmd[c].args.count = -1

\* C15: ZADD k 1 a 2 b 3 c on an absent key replies :3 and the ZRANGE k 0 -1
\* WITHSCORES that follows returns a 1, b 2, c 3; in general ZRANGE key 0 -1
\* returns every member of the set in ascending score order
C15_ZrangeZeroMinusOneIsAll ==
    \A c \in Solo :
        /\ (Succeeded(c, "zadd") /\ cmd[c] = ZaddABC /\ served[c] = <<>>)
              => reply[c] = IntReply(Len(SetMembers))
        /\ RangedAll(c) =>
              \E m \in SortFunc(SetAt(store, cmd[c].key), FALSE) :
                  reply[c] = ArrayReply(Elements(m, cmd[c].args.withscores))
        /\ (RangedAll(c) /\ cmd[c].args.withscores
            /\ served[c] = <<[cmd |-> ZaddABC, reply |-> IntReply(Len(SetMembers))]>>)
               => reply[c] = ArrayReply(ZaddABC.members)

\* the members of the sequence whose score is within start..stop
Matching(members, a) ==
    SelectSeq(members, LAMBDA m : m.score >= a.start /\ m.score <= a.stop)

\* positions offset .. offset+count-1 of matching, through the end when count < 0
Limited(matching, a) ==
    LET last == IF a.count < 0 \/ a.offset + a.count > Len(matching)
                THEN Len(matching) ELSE a.offset + a.count
    IN SubSeq(matching, a.offset + 1, last)

\* C16: ZRANGE and ZRANGESTORE with LIMIT offset count, count >= 0, return
\* exactly the elements at positions offset .. offset+count-1 of the ordered
\* sequence of the members that match the range, hence at most count
\* elements; with count < 0 every matching element from position offset on
C16_LimitSelectsPositions ==
    \A c \in Solo :
        /\ Succeeded(c, "zrange") =>
              \E m \in SortFunc(SetAt(store, cmd[c].key), cmd[c].args.reverse) :
                  reply[c] = ArrayReply(Elements(Limited(Matching(m, cmd[c].args),
                                                         cmd[c].args),
                                                 cmd[c].args.withscores))
        /\ (Succeeded(c, "zrangestore") /\ reply[c].kind = "int") =>
              \E m \in SortFunc(SetAt(store, cmd[c].keys[1]), cmd[c].args.reverse) :
                  LET kept == NewSortedSet(Limited(Matching(m, cmd[c].args), cmd[c].args))
                  IN  /\ store[cmd[c].key] = ZSet(kept)
                      /\ reply[c] = IntReply(Cardinality(kept))

\* in sequence m the members of equal score follow each other by value
TiesByValue(m, ascending) ==
    \A i \in 1..(Len(m) - 1) :
        m[i].score = m[i + 1].score =>
            IF ascending THEN LexIndex(m[i].value) < LexIndex(m[i + 1].value)
            ELSE LexIndex(m[i].value) > LexIndex(m[i + 1].value)

\* the members of set by score, ties by member value; under REV the ties in
\* either direction, but all of them in the same one
ByScoreThenValue(set, reverse) ==
    {m \in SortFunc(set, reverse) :
        TiesByValue(m, TRUE) \/ (reverse /\ TiesByValue(m, FALSE))}

\* C17: a score-ordered reply orders the members by score and breaks ties
\* between equal scores by lexicographic member value, so the reply is a
\* function of the set's contents and the command
C17_TiesBrokenByValue ==
    \A c \in Solo :
        Succeeded(c, "zrange") =>
            \E m \in ByScoreThenValue(SetAt(store, cmd[c].key), cmd[c].args.reverse) :
                \/ reply[c] = ArrayReply(Elements(RangeLoop(m, cmd[c].args),
                                                  cmd[c].args.withscores))
                \/ cmd[c].args.offset > Len(m) /\ reply[c] = ArrayReply(<<>>)

(* ------------- ZRANK, ZREMRANGEBYRANK, ZMPOP on one connection --------- *)

\* k1 absent, a string or any sorted set; k2 as in InitValues
InitRank ==
    /\ store \in [Keys -> InitValues \cup {ZSet(set) : set \in SortedSets}]
    /\ store["k2"] \in InitValues
    /\ expireAt = [k \in Keys |-> 0]
    /\ wlock = [k \in Keys |-> None]
    /\ rlock = [k \in Keys |-> [c \in Clients |-> 0]]
    /\ keyCreationLock = None
    /\ fatal = FALSE
    /\ now = 0
    /\ InitClients
    /\ NewAOFEngine /\ IdleSnapshot /\ IdleFSM /\ IdleReaper

NextRank ==
    \E c \in Solo :
        \/ Start_Rank(c)
        \/ handleZRANK(c) \/ handleZREMRANGEBYRANK(c) \/ handleZMPOP(c)
        \/ handleZLEXCOUNT(c)

SpecRank == InitRank /\ [][NextRank]_vars

\* the command has returned on connection c
Returned(c, name) == pc[c] = "done" /\ cmd[c].name = name

\* C18: on a key that holds a sorted set ZREMRANGEBYRANK maps each negative
\* index i to i + cardinality; if either resulting index is still outside
\* 0 .. cardinality-1 it replies with an error and removes nothing; otherwise
\* it removes the members between the two indices and replies their number
C18_RankIndicesMappedOrRejected ==
    \A c \in Solo :
        (Returned(c, "zremrangebyrank") /\ store0[cmd[c].key].kind = "zset") =>
            LET k == cmd[c].key
                a == cmd[c].args
                n == Cardinality(store0[k].set)
                start == IF a.start < 0 THEN a.start + n ELSE a.start
                stop == IF a.stop < 0 THEN a.stop + n ELSE a.stop
                width == IF start < stop THEN stop - start + 1 ELSE start - stop + 1
            IN  IF start \notin 0..(n - 1) \/ stop \notin 0..(n - 1)
                THEN reply[c] = ErrReply /\ store = store0
                ELSE /\ reply[c] = IntReply(width)
                     /\ store[k].kind = "zset" /\ store[k].set \subseteq store0[k].set
                     /\ Cardinality(store0[k].set \ store[k].set) = width
                     /\ \A j \in Keys \ {k} : store[j] = store0[j]

\* C30: on success ZREMRANGEBYRANK start stop removes exactly the members
\* whose 0-based rank in ascending (score, then member value) order lies in
\* the closed interval between start and stop, leaves every other member and
\* its score unchanged, and replies with the number of members removed, which
\* is the decrease of the set's cardinality
C30_RemovesByRank ==
    \A c \in Solo :
        (/\ Returned(c, "zremrangebyrank") /\ store0[cmd[c].key].kind = "zset"
         /\ reply[c].kind = "int") =>
            LET k == cmd[c].key
                a == cmd[c].args
                n == Cardinality(store0[k].set)
                start == IF a.start < 0 THEN a.start + n ELSE a.start
                stop == IF a.stop < 0 THEN a.stop + n ELSE a.stop
                lo == IF start < stop THEN start ELSE stop
                hi == IF start < stop THEN stop ELSE start
            IN  \E m \in ByScoreThenValue(store0[k].set, FALSE) :
                  /\ store[k] = ZSet(store0[k].set \ {m[i + 1] : i \in lo..hi})
                  /\ reply[c] = IntReply(n - Cardinality(store[k].set))

\* a negative start that is still below 0 after the mapping, with a stop
\* that the mapping brought into range, was rejected
C18_Witness ==
    \E c \in Solo :
        /\ Returned(c, "zremrangebyrank") /\ store0[cmd[c].key].kind = "zset"
        /\ store0[cmd[c].key].set # {}
        /\ cmd[c].args.start + Cardinality(store0[cmd[c].key].set) < 0
        /\ cmd[c].args.stop = -1
        /\ reply[c] = ErrReply /\ store = store0

\* the positions of command.keys that hold a non-empty sorted set in st
NonEmptyAt(command, st) ==
    {i \in 1..Len(command.keys) : SetAt(st, command.keys[i]) # {}}

\* the members of a reply
ReplyMembers(r) == {r.n[i] : i \in 1..Len(r.n)}

\* C19: ZMPOP examines its keys in the order given and pops from the first
\* key that holds a non-empty sorted set: it removes up to COUNT members, the
\* lowest (MIN) or highest (MAX) scores, from that key only, replies with
\* exactly the removed members, leaves every other key unchanged, and replies
\* with an empty array when no listed key holds a non-empty sorted set
C19_ZmpopFirstNonEmpty ==
    \A c \in Solo :
        Returned(c, "zmpop") =>
            LET hits == NonEmptyAt(cmd[c], store0)
            IN  IF hits = {}
                THEN reply[c] = ArrayReply(<<>>) /\ store = store0
                ELSE LET k == cmd[c].keys[CHOOSE i \in hits : \A j \in hits : i <= j]
                         removed == store0[k].set \ SetAt(store, k)
                         had == Cardinality(store0[k].set)
                     IN  /\ reply[c].kind = "array"
                         /\ ReplyMembers(reply[c]) = removed
                         /\ Len(reply[c].n) = Cardinality(removed)
                         /\ Cardinality(removed) =
                               IF cmd[c].args.count < had THEN cmd[c].args.count ELSE had
                         /\ store[k].kind = "zset" /\ store[k].set \subseteq store0[k].set
                         /\ \A e \in removed, f \in store[k].set :
                               IF cmd[c].args.policy = "min" THEN e.score <= f.score
                               ELSE e.score >= f.score
                         /\ \A j \in Keys \ {k} : store[j] = store0[j]

\* the first key listed held no members and the pop came from the second
C19_Witness ==
    \E c \in Solo :
        /\ Returned(c, "zmpop") /\ Len(cmd[c].keys) = 2
        /\ SetAt(store0, cmd[c].keys[1]) = {}
        /\ store0[cmd[c].keys[1]] # Absent
        /\ reply[c].kind = "array" /\ Len(reply[c].n) > 1
        /\ store[cmd[c].keys[2]] # store0[cmd[c].keys[2]]
        /\ store[cmd[c].keys[2]].set # {}

\* C20: ZRANK replies the 0-based position of the member in ascending score
\* order and ZREVRANK its 0-based position in descending score order (a
\* position among the members of equal score, where there are any), with
\* the member's score when asked for; when the key is absent or the member
\* is not in the set both reply nil, and neither modifies the keyspace
C20_RankIsPosition ==
    \A c \in Solo :
        (pc[c] = "done" /\ cmd[c].name \in {"zrank", "zrevrank"}
         /\ store0[cmd[c].key].kind \in {"absent", "zset"}) =>
            LET set == SetAt(store0, cmd[c].key)
                a == cmd[c].args
                score == Get(set, a.member).score
                before == {e \in set : IF cmd[c].name = "zrank" THEN e.score < score
                                       ELSE e.score > score}
                tied == {e \in set : e.score = score /\ e.value # a.member}
            IN  /\ store = store0
                /\ IF ~Contains(set, a.member)
                   THEN reply[c] = NilReply
                   ELSE /\ reply[c].kind = "array"
                        /\ Len(reply[c].n) = (IF a.withscores THEN 2 ELSE 1)
                        /\ reply[c].n[1] >= Cardinality(before)
                        /\ reply[c].n[1] <= Cardinality(before) + Cardinality(tied)
                        /\ a.withscores => reply[c].n[2] = score

\* ZREVRANK found the lowest of three distinct scores at position 2
C20_Witness ==
    \E c \in Solo :
        /\ pc[c] = "done" /\ cmd[c].name = "zrevrank"
        /\ Cardinality(store0[cmd[c].key].set) = Len(SetMembers)
        /\ \A e, f \in store0[cmd[c].key].set : e # f => e.score # f.score
        /\ reply[c] = ArrayReply(<<Len(SetMembers) - 1, 1>>)

\* the keys of the command that the handler reads in keyspace st: its one
\* key, or for ZMPOP the listed keys up to the first non-empty sorted set
KeysRead(command, st) ==
    IF command.name # "zmpop" THEN {command.key}
    ELSE {command.keys[i] : i \in {i \in 1..Len(command.keys) :
              \A j \in 1..(i - 1) : SetAt(st, command.keys[j]) = {}}}

\* C21: every sorted-set command that finds a value of another type at a key
\* it operates on returns a wrong-type error and leaves the whole keyspace
\* unchanged, with no lock left held; no command treats a wrong-typed key
\* as an empty set
C21_WrongTypeIsAnError ==
    \A c \in Solo :
        (pc[c] = "done" /\ \E k \in KeysRead(cmd[c], store0) : store0[k] = StringVal) =>
            /\ reply[c] = ErrReply
            /\ store = store0
            /\ HeldBy(c) = {}

(* ------------- ZINTERSTORE, ZUNIONSTORE onto a source key -------------- *)

NextStoreSelf ==
    \E c \in Solo :
        \/ Start_StoreSelf(c)
        \/ handleZINTERSTORE(c)
        \/ handleZUNIONSTORE(c)

SpecStoreSelf == Init /\ [][NextStoreSelf]_vars

\* C28: ZUNIONSTORE and ZINTERSTORE compute their result over every input key
\* listed on the command, also when the destination is itself one of the
\* inputs: what the destination holds afterwards is the union (intersection)
\* of all the listed inputs as they were when the command started (looked at
\* for commands all of whose listed keys held a sorted set)
C28_StoreCoversEveryInput ==
    \A c \in Solo :
        (/\ StoreReturned(c) /\ cmd[c].name \in {"zinterstore", "zunionstore"}
         /\ \A i \in 1..Len(cmd[c].keys) : store0[cmd[c].keys[i]].kind = "zset") =>
            SetAt(store, cmd[c].key) = StoreResult(cmd[c], store0)

\* a registry in which the pops are not synchronized
SyncButPops(name) ==
    name \in {"zadd", "zdiffstore", "zincrby", "zinterstore", "zrem", "zremrangebylex",
              "zremrangebyrank", "zremrangebyscore", "zrangestore", "zunionstore"}

\* Commands(): the commands registered with Sync: true
Sync(name) ==
    name \in {"zadd", "zdiffstore", "zincrby", "zinterstore", "zmpop", "zpopmax",
              "zpopmin", "zrem", "zremrangebylex", "zremrangebyrank",
              "zremrangebyscore", "zrangestore", "zunionstore"}

\* connection c takes a step of the handler of its command
HandlerStep(c) == pc[c] # "idle" /\ pc'[c] # pc[c]

InitPop ==
    /\ store \in [Keys -> InitValues \cup {ZSet(set) : set \in SortedSets}]
    /\ store["k2"] \in {Absent, StringVal}
    /\ expireAt = [k \in Keys |-> 0]
    /\ wlock = [k \in Keys |-> None]
    /\ rlock = [k \in Keys |-> [c \in Clients |-> 0]]
    /\ keyCreationLock = None
    /\ fatal = FALSE
    /\ now = 0
    /\ InitClients
    /\ NewAOFEngine /\ IdleSnapshot /\ IdleFSM /\ IdleReaper

NextPop ==
    \E c \in Clients :
        \/ Start_Pop(c)
        \/ handleZPOP(c)
        \/ handleZMPOP(c)

SpecPop == InitPop /\ [][NextPop]_vars

\* the pop on connection c has replied with the members it removed
Popped(c) ==
    /\ pc[c] = "done"
    /\ cmd[c].name \in {"zpopmin", "zpopmax", "zmpop"}
    /\ reply[c].kind = "array"

\* the values of the members a reply lists
ReplyValues(r) == {r.n[i].value : i \in 1..Len(r.n)}

\* C29: ZPOPMIN, ZPOPMAX and ZMPOP remove and report members atomically with
\* respect to other commands on the key: two concurrent pops on one key never
\* return the same member, every member a pop has returned was a member of the
\* set and is absent from it once that pop has replied
C29_PopsAreAtomic ==
    \A c \in Clients :
        Popped(c) =>
            /\ ReplyMembers(reply[c]) \subseteq SetAt(store0, "k1")
            /\ \A v \in ReplyValues(reply[c]) : ~Contains(SetAt(store, "k1"), v)
            /\ \A d \in Clients \ {c} :
                  Popped(d) => ReplyValues(reply[c]) \cap ReplyValues(reply[d]) = {}

\* both connections have popped members of k1
C29_Witness ==
    /\ \A c \in Clients : Popped(c) /\ reply[c].n # <<>>
    /\ \E c \in Clients : cmd[c].name = "zmpop"
    /\ \E c \in Clients : cmd[c].name \in {"zpopmin", "zpopmax"}

(* --------------------- ZCARD while the reaper runs --------------------- *)

\* a server under construction; k1 absent, a string or a sorted set, with
\* or without a deadline
InitCard ==
    /\ store \in [Keys -> {Absent, StringVal} \cup {ZSet(set) : set \in SortedSets}]
    /\ store["k2"] = Absent
    /\ expireAt \in [Keys -> 0..MaxTime]
    /\ \A k \in Keys : store[k] = Absent => expireAt[k] = 0
    /\ wlock = [k \in Keys |-> None]
    /\ rlock = [k \in Keys |-> [c \in Clients |-> 0]]
    /\ keyCreationLock = None
    /\ fatal = FALSE
    /\ now = 0
    /\ InitClients
    /\ NewAOFEngine /\ IdleSnapshot /\ IdleFSM
    /\ evictionPolicy \in Policies
    /\ srvPc = "new"
    /\ reaperPc = "off"

NextCard ==
    \/ \E c \in Solo : Start_ZCARD(c) \/ handleZCARD(c)
    \/ NewServer \/ Tick \/ Reaper

SpecCard == InitCard /\ [][NextCard]_vars

\* C22: ZCARD returns 0 when the key does not exist and the cardinality of
\* the sorted set otherwise, and an error only when the key holds a value
\* that is not a sorted set; when the key is deleted between the handler's
\* KeyExists check and its KeyRLock the reply is still 0 or the former
\* cardinality, never an error
C22_ZcardNeverFailsOnASet ==
    \A c \in Solo :
        (Returned(c, "zcard") /\ store0[cmd[c].key].kind \in {"absent", "zset"}) =>
            \/ reply[c] = IntReply(0)
            \/ reply[c] = IntReply(Cardinality(store0[cmd[c].key].set))

\* the members of the set have one score
UniformScore(set) == \A e, f \in set : e.score = f.score

\* C26: whenever the members of a sorted set do not all share one score,
\* the lex operations treat the set as non-matching: ZLEXCOUNT returns 0,
\* for every cardinality, sets of exactly two members included
C26_LexNeedsUniformScore ==
    \A c \in Solo :
        (Returned(c, "zlexcount") /\ store0[cmd[c].key].kind = "zset"
         /\ ~UniformScore(store0[cmd[c].key].set)) =>
            reply[c] = IntReply(0)

(* ------------------- the AOF engine under its clients ------------------ *)

\* a server started on an empty data directory
InitAOF ==
    /\ store = [k \in Keys |-> Absent]
    /\ expireAt = [k \in Keys |-> 0]
    /\ wlock = [k \in Keys |-> None]
    /\ rlock = [k \in Keys |-> [c \in Clients |-> 0]]
    /\ keyCreationLock = None
    /\ fatal = FALSE
    /\ now = 0
    /\ InitClients
    /\ NewAOFEngine
    /\ IdleSnapshot /\ IdleFSM /\ IdleReaper

NextAOF ==
    \/ \E c \in Clients : aof_handleCommand(c) \/ QueueCommand(c)
    \/ Writer
    \/ \E r \in Rewriters : RewriteAOF(r) \/ RewriteLog(r)

SpecAOF == InitAOF /\ [][NextAOF]_vars

\* everything queued has been written and no rewrite is under way
AofQuiescent ==
    /\ \A c \in Clients : pc[c] = "idle"
    /\ logChan = <<>>
    /\ wpc = "receive"
    /\ \A r \in Rewriters : rpc[r] \in {"idle", "rejected", "done"}

\* C5: once everything queued has been written (and no write to disk has
\* failed), replaying the preamble and then the append log yields exactly the
\* current keyspace, whatever the interleaving of clients, writer and rewrite
C5_ReplayEqualsKeyspace ==
    (AofQuiescent /\ ~ioFailed) => Restore(preamble, appendLog) = store

\* the rewriters between startRewrite and finishRewrite
InRewrite == {r \in Rewriters : rpc[r] \in {"CreatePreamble", "Truncate", "finishRewrite"}}

RewriteEvents == <<"startRewrite", "CreatePreamble", "Truncate", "finishRewrite">>

\* the rewrite events come in blocks of four, each block one rewriter's
\* events in the order of RewriteEvents
RewritesInOrder ==
    \A i \in 1..Len(rwLog) :
        LET j == (i - 1) % Len(RewriteEvents)
        IN  /\ rwLog[i].ev = RewriteEvents[j + 1]
            /\ rwLog[i].r = rwLog[i - j].r

\* C6: concurrent calls of RewriteLog never overlap: at most one caller is
\* between startRewrite and finishRewrite; each call's events are, in order,
\* startRewrite, CreatePreamble, Truncate, finishRewrite; a call that has
\* returned has run finishRewrite; RewriteAOFInProgress is true throughout
\* the preamble creation and the truncate
C6_RewritesNeverOverlap ==
    /\ Cardinality(InRewrite) <= 1
    /\ RewritesInOrder
    /\ \A r \in Rewriters :
         rpc[r] \in {"Unlock", "done"} =>
            \E i \in 1..Len(rwLog) : rwLog[i] = [r |-> r, ev |-> "finishRewrite"]
    /\ \A r \in InRewrite : RewriteAOFInProgress

\* a rewriter waits for the mutex while the other one truncates
C6_Witness ==
    \E r, q \in Rewriters : rpc[r] = "Lock" /\ mut = q /\ rpc[q] = "Truncate"

\* the commands the writer has taken off the queue and not yet written
InFlight == IF wpc = "Write" THEN <<wcmd>> ELSE <<>>

\* C7: the commands are handed to the append store in exactly the order in
\* which QueueCommand accepted them, each at most once, so those of a single
\* client are in that client's submission order; a producer blocks when the
\* queue is full, and no command is dropped
C7_QueueOrder ==
    /\ written \o InFlight \o logChan = accepted
    /\ Len(logChan) <= LogChanCap
    /\ \A i, j \in 1..Len(written) :
         i < j => /\ written[i] # written[j]
                  /\ written[i].client = written[j].client => written[i].n < written[j].n
    /\ \A c \in Clients :
         Cardinality({i \in 1..Len(accepted) : accepted[i].client = c})
            = issued[c] - (IF pc[c] = "aof_QueueCommand" THEN 1 ELSE 0)

\* a producer is blocked on the full queue, which holds an earlier command
\* of the same client
C7_Witness ==
    \E c \in Clients :
        /\ pc[c] = "aof_QueueCommand"
        /\ Len(logChan) = LogChanCap
        /\ \E i \in 1..Len(logChan) : logChan[i].client = c

(* ------------------ the AOF engine restores at start-up ---------------- *)

\* an empty keyspace, a preamble and an append log on disk
InitEngineRestore ==
    /\ InitKeyspace /\ store = [k \in Keys |-> Absent]
    /\ InitClients
    /\ logChan = <<>>
    /\ appendLog \in AppendLogs
    /\ preamble \in [Keys -> InitValues \ {StringVal}]
    /\ mut = None
    /\ RewriteAOFInProgress = FALSE
    /\ wpc = "receive"
    /\ wcmd = NoEntry
    /\ rpc = [r \in Rewriters |-> "idle"]
    /\ issued = [c \in Clients |-> 0]
    /\ accepted = <<>>
    /\ written = <<>>
    /\ rwLog = <<>>
    /\ ioFailed = FALSE
    /\ epc = "idle" /\ etodo = {} /\ enext = 1
    /\ IdleSnapshot /\ IdleFSM /\ IdleReaper

NextEngineRestore == EngineRestore

SpecEngineRestore == InitEngineRestore /\ [][NextEngineRestore]_vars

PreambleReplayFailed == epc \in {"append", "done"} /\ etodo # {}

\* C39: a failure of the preamble replay ends Engine.Restore: no command of
\* the append log is replayed on top of the incomplete base
C39_FailedPreambleStopsRestore ==
    PreambleReplayFailed => enext = 1


InitSnap ==
    /\ InitKeyspace /\ InitClients
    /\ NewAOFEngine /\ IdleSnapshot /\ IdleFSM /\ IdleReaper

NextSnap == \E s \in Snapshotters : TakeSnapshot(s) \/ SnapshotTask(s)

SpecSnap == InitSnap /\ [][NextSnap]_vars

\* the snapshot tasks between StartSnapshot and FinishSnapshot
InSnapshot == {s \in Snapshotters : spc[s] \in {"write", "FinishSnapshot"}}

\* C8: at most one snapshot is in progress at any time: at most one snapshot
\* task is between StartSnapshot and the matching FinishSnapshot
C8_OneSnapshotAtATime == Cardinality(InSnapshot) <= 1

(* -------------------- a connection writes responses -------------------- *)

NextConn == writeResponse

SpecConn == InitAOF /\ [][NextConn]_vars

\* the bytes of the calls, one call after the other
RECURSIVE Concat(_)
Concat(calls) ==
    IF calls = <<>> THEN <<>> ELSE Head(calls).taken \o Concat(Tail(calls))

\* every write took all it was given
WritesComplete == \A i \in 1..Len(wire) : wire[i].taken = wire[i].asked

\* C27: a non-empty response is written in chunks of at most chunkSize
\* bytes whose concatenation, in order, is the response, as long as every
\* write is complete; a response of at most chunkSize bytes is written in a
\* single write and an empty response writes nothing
C27_ChunksMakeTheResponse ==
    (cpc = "continue" /\ WritesComplete) =>
        /\ \A i \in 1..Len(wire) : Len(wire[i].asked) <= chunkSize
        /\ Concat(wire) = res
        /\ Len(res) = 0 => wire = <<>>
        /\ (0 < Len(res) /\ Len(res) <= chunkSize) => Len(wire) = 1

\* a response of more than two chunks went out, the last chunk a short one
C27_Witness ==
    /\ cpc = "continue" /\ WritesComplete
    /\ Len(res) > 2 * chunkSize /\ Len(wire) = 3
    /\ Len(wire[3].asked) < chunkSize

(* ------------------------ the connection loop -------------------------- *)

NextLoop == handleConnection \/ writeResponse

SpecLoop == InitAOF /\ [][NextLoop]_vars

\* C33: a command that fails with an error other than end-of-stream never
\* ends the connection: one RESP error line is written for it and the loop
\* goes on to read the next message; the loop ends only on a read failure or
\* end-of-stream, after which the connection is closed exactly once
C33_ErrorsKeepTheConnection ==
    /\ cpc \in {"close", "closed"} => loop.last \in {"EOF", "read"}
    /\ loop.last = "wrong type" =>
          /\ cpc \in {"continue", "idle"}
          /\ Len(wire) = 1 /\ wire[1].asked = <<"-Error ", "wrong type", "\r\n">>
    /\ loop.closes = (IF cpc = "closed" THEN 1 ELSE 0)

\* two commands have failed, and the loop is reading the next message
C33_Witness == loop.errors = 2 /\ loop.last = "wrong type" /\ cpc = "idle"

(* ----------------- snapshots and rewrites asked for again -------------- *)

NextGates ==
    \/ \E c \in Clients : handleBGSAVE(c)
    \/ \E s \in Snapshotters : TakeSnapshot(s) \/ SnapshotTask(s)
    \/ \E r \in Rewriters : RewriteAOF(r) \/ RewriteLog(r)

SpecGates == InitAOF /\ [][NextGates]_vars

\* C25: whenever SnapshotInProgress is set, TakeSnapshot returns an error
\* and starts no snapshot task, and BGSAVE replies with that error instead
\* of OK; whenever RewriteAOFInProgress is set, RewriteAOF returns an error
\* and starts no rewrite task
C25_InProgressIsRejected ==
    [][/\ \A s \in Snapshotters :
            (SnapshotInProgress /\ spc[s] = "idle" /\ spc'[s] # "idle") =>
                spc'[s] = "rejected"
       /\ \A c \in Clients :
            (SnapshotInProgress /\ pc[c] = "idle" /\ pc'[c] = "done"
             /\ cmd'[c].name = "bgsave") =>
                /\ reply'[c] = ErrReply
                /\ \A s \in Snapshotters : spc'[s] = "go" => spc[s] = "go"
       /\ \A r \in Rewriters :
            (RewriteAOFInProgress /\ rpc[r] = "idle" /\ rpc'[r] # "idle") =>
                rpc'[r] = "rejected"]_vars

\* a BGSAVE was turned down while a snapshot was being written, and a
\* rewrite was turned down while the log was being rewritten
C25_Witness ==
    /\ SnapshotInProgress /\ RewriteAOFInProgress
    /\ \E c \in Clients : cmd[c].name = "bgsave" /\ reply[c] = ErrReply
    /\ \E c \in Clients : cmd[c].name = "bgsave" /\ reply[c] = OkReply
    /\ \E r \in Rewriters : rpc[r] = "rejected"

(* ------------------------ the FSM restores a snapshot ------------------ *)

\* a keyspace of sorted sets, some with a deadline, none expired yet; a
\* snapshot; the clock on 1
InitRestore ==
    /\ store \in [Keys -> {Absent, ZSet({MemberParam("a", 1)})}]
    /\ expireAt \in [Keys -> {0, MaxTime}]
    /\ \A k \in Keys : store[k] = Absent => expireAt[k] = 0
    /\ wlock = [k \in Keys |-> None]
    /\ rlock = [k \in Keys |-> [c \in Clients |-> 0]]
    /\ keyCreationLock = None
    /\ fatal = FALSE
    /\ now = 1
    /\ InitClients
    /\ NewAOFEngine /\ IdleSnapshot /\ IdleReaper
    /\ snap \in SnapshotStates
    /\ fpc = "idle"
    /\ ftodo = {}
    /\ fkey = None

NextRestore == FSMRestore

SpecRestore == InitRestore /\ [][NextRestore]_vars

\* C9: after FSM.Restore has returned, the keyspace holds exactly the
\* non-expired entries of the snapshot, with their values and expiries: a
\* key that is not among them is absent
C9_RestoreLeavesSnapshot ==
    fpc = "done" =>
        \A k \in Keys :
            IF k \in FilterExpiredKeys(snap)
            THEN store[k] = snap[k].value /\ expireAt[k] = snap[k].expireAt
            ELSE store[k] = Absent

(* ------------------- an FSM snapshot, taken and restored --------------- *)

\* a keyspace of strings and sorted sets, with and without a deadline
InitSnapRestore ==
    /\ store \in [Keys -> {Absent, StringVal, ZSet({MemberParam("b", 1)})}]
    /\ expireAt \in [Keys -> 0..MaxTime]
    /\ \A k \in Keys : store[k] = Absent => expireAt[k] = 0
    /\ wlock = [k \in Keys |-> None]
    /\ rlock = [k \in Keys |-> [c \in Clients |-> 0]]
    /\ keyCreationLock = None
    /\ fatal = FALSE
    /\ now = 0
    /\ InitClients
    /\ NewAOFEngine /\ IdleSnapshot /\ IdleReaper
    /\ snap = [k \in Keys |-> NoData]
    /\ fpc = "up"
    /\ ftodo = {}
    /\ fkey = None

NextSnapRestore == FSMSnapshot \/ NewReplica \/ Tick \/ FSMRestore

SpecSnapRestore == InitSnapRestore /\ [][NextSnapRestore]_vars

\* C24: taking an FSM snapshot of keyspace state S and restoring it into an
\* empty keyspace yields exactly the entries of S that are not expired at
\* restore time, each with the same value and the same expiry, and every
\* key is left unlocked (an entry whose deadline passes while the restore
\* runs may or may not be there)
C24_SnapshotRestoreIsIdentity ==
    fpc = "done" =>
        \A k \in Keys :
            /\ wlock[k] = None
            /\ store0[k] = Absent => store[k] = Absent
            /\ (store0[k] # Absent /\ (snap[k].expireAt = 0 \/ snap[k].expireAt > now)) =>
                  store[k] = store0[k] /\ expireAt[k] = snap[k].expireAt
            /\ store[k] # Absent => store[k] = store0[k] /\ expireAt[k] = snap[k].expireAt

(* ------------------------- the reaper and the clock -------------------- *)

\* a server under construction, with its policy, over a keyspace of keys
\* with and without a deadline
InitReaper ==
    /\ store \in [Keys -> {Absent, StringVal}]
    /\ expireAt \in [Keys -> 0..MaxTime]
    /\ \A k \in Keys : store[k] = Absent => expireAt[k] = 0
    /\ wlock = [k \in Keys |-> None]
    /\ rlock = [k \in Keys |-> [c \in Clients |-> 0]]
    /\ keyCreationLock = None
    /\ fatal = FALSE
    /\ now = 0
    /\ InitClients
    /\ NewAOFEngine /\ IdleSnapshot /\ IdleFSM
    /\ evictionPolicy \in Policies
    /\ srvPc = "new"
    /\ reaperPc = "off"

NextReaper == NewServer \/ Tick \/ Reaper

SpecReaper == InitReaper /\ [][NextReaper]_vars

\* C10: under every eviction policy, noeviction included, a reaper task
\* runs for the lifetime of the server
C10_ReaperUnderEveryPolicy == srvPc = "up" => reaperPc # "off"

(* ------------------------ the server starts up ------------------------- *)

\* a server that is not in a cluster, with any configuration of the two
\* restore flags, over an AOF and a snapshot file left by an earlier run
InitStart ==
    /\ InitKeyspace /\ store = [k \in Keys |-> Absent]
    /\ IdleConns
    /\ startPc = "idle"
    /\ conf \in [RestoreAOF : BOOLEAN, RestoreSnapshot : BOOLEAN]
    /\ restored = <<>>
    /\ conns = 0
    /\ NoRaftLog /\ NewPubSub
    /\ logChan = <<>>
    /\ appendLog \in AppendLogs
    /\ preamble \in [Keys -> {Absent, ZSet({MemberParam("a", 1)})}]
    /\ mut = None
    /\ RewriteAOFInProgress = FALSE
    /\ wpc = "receive"
    /\ wcmd = NoEntry
    /\ rpc = [r \in Rewriters |-> "idle"]
    /\ issued = [c \in Clients |-> 0]
    /\ accepted = <<>>
    /\ written = <<>>
    /\ rwLog = <<>>
    /\ ioFailed = FALSE
    /\ epc = "idle" /\ etodo = {} /\ enext = 1
    /\ SnapshotInProgress = FALSE
    /\ spc = [s \in Snapshotters |-> "idle"]
    /\ snapshotFile \in [Keys -> {Absent, StringVal}]
    /\ IdleFSM /\ IdleReaper

NextStart == ServerStart

SpecStart == InitStart /\ [][NextStart]_vars

\* the restore is over: Server.Start has gone on to the snapshot engine
PastRestore == startPc \in {"engine_start", "listen", "accept", "dead"}

\* C31: in standalone start-up at most one restore source is applied: the AOF
\* is restored when RestoreAOF is set, the snapshot only when RestoreSnapshot
\* is set and RestoreAOF is not, and the chosen restore has finished before
\* the listener accepts its first connection
C31_OneRestoreBeforeAccept ==
    /\ Len(restored) <= 1
    /\ epc # "idle" => conf.RestoreAOF
    /\ PastRestore =>
          restored = IF conf.RestoreAOF THEN <<"aof">>
                     ELSE IF conf.RestoreSnapshot THEN <<"snapshot">>
                     ELSE <<>>
    /\ (~conf.RestoreAOF /\ ~RestoresSnapshot(conf)) => store = store0
    /\ conns > 0 => PastRestore /\ epc \in {"idle", "done"}

\* both flags set: the AOF was restored, the snapshot was not, and a
\* connection has been accepted
C31_Witness ==
    /\ conf.RestoreAOF /\ conf.RestoreSnapshot
    /\ restored = <<"aof">> /\ epc = "done"
    /\ conns > 0

(* ---------------------- the FSM applies log entries -------------------- *)

\* k1 holds any value, k2 a string
InitApply ==
    /\ store \in [Keys -> InitValues \cup {ZSet(set) : set \in SortedSets}]
    /\ store["k2"] = StringVal
    /\ expireAt = [k \in Keys |-> 0]
    /\ wlock = [k \in Keys |-> None]
    /\ rlock = [k \in Keys |-> [c \in Clients |-> 0]]
    /\ keyCreationLock = None
    /\ fatal = FALSE
    /\ now = 0
    /\ IdleConns /\ NotStarted /\ NewPubSub
    /\ raftLog = <<>> /\ lastApplied = 0 /\ responses = <<>>
    /\ peer = [store |-> store, responses |-> <<>>]
    /\ NewAOFEngine /\ IdleSnapshot /\ IdleFSM /\ IdleReaper

NextApply == Commit \/ FSMApply

SpecApply == InitApply /\ [][NextApply]_vars

\* the keyspace after the i-th entry was applied
StoreAfter(i) == IF i = Len(responses) THEN store ELSE responses[i + 1].before

\* C32: FSM.Apply returns an error response and leaves the keyspace unchanged
\* when the entry cannot be deserialized, when its type is neither delete-key
\* nor command, or when the command name does not resolve; for delete-key it
\* invokes DeleteKey on the request key; for command it returns exactly the
\* bytes or the error of the resolved handler, the subcommand's when one matches
C32_ApplyDispatches ==
    \A i \in 1..Len(responses) :
        LET a == responses[i]
            r == a.request
            t == IF r.Type = "DELETE-KEY" THEN "delete-key" ELSE r.Type
        IN  /\ (~r.decodes \/ t \notin {"delete-key", "command"}
                 \/ (t = "command" /\ r.CMD.name = "nosuch")) =>
                  /\ a.resp.Error # NoReply /\ a.resp.Response = NoReply
                  /\ a.ran = None /\ StoreAfter(i) = a.before
            /\ (r.decodes /\ t = "delete-key") =>
                  /\ a.ran = "DeleteKey"
                  /\ StoreAfter(i)[r.Key] = Absent
                  /\ \A k \in Keys \ {r.Key} : StoreAfter(i)[k] = a.before[k]
            /\ (r.decodes /\ t = "command" /\ r.CMD.name # "nosuch") =>
                  /\ a.ran = IF r.CMD.name = "acl" /\ r.CMD.args.sub = "whoami"
                             THEN "acl|whoami" ELSE r.CMD.name
                  /\ IF a.out.kind = "err"
                     THEN a.resp = [Error |-> a.out, Response |-> NoReply]
                     ELSE a.resp = [Error |-> NoReply, Response |-> a.out]

\* an entry of an unsupported type and a command with a subcommand have
\* been applied
C32_Witness ==
    /\ Len(responses) = 2
    /\ responses[1].request.Type = "set" /\ responses[1].resp.Error # NoReply
    /\ responses[2].ran = "acl|whoami" /\ responses[2].resp.Response = OkReply

(* ---------------- two replicas apply the same log entries -------------- *)

NextReplicas == Commit \/ FSMApply \/ PeerApply

SpecReplicas == InitApply /\ [][NextReplicas]_vars

\* both replicas have applied the same entries of the log
SameApplied == Len(peer.responses) = lastApplied

\* C40: two replicas that start from equal keyspaces and have applied the
\* same committed entries hold equal keyspaces and have produced equal
\* responses for every entry, also for the commands that select members by
\* rank or by pop from a set with equal scores
C40_ApplyIsDeterministic ==
    SameApplied =>
        /\ peer.store = store
        /\ \A i \in 1..lastApplied : peer.responses[i] = responses[i].resp

(* -------------------- connections subscribe and publish ---------------- *)

NextPubSub ==
    \E c \in Clients : PubSub_Subscribe(c) \/ PubSub_Publish(c) \/ PubSub_Returned(c)

SpecPubSub == Init /\ [][NextPubSub]_vars

\* every connection's goroutine goes on running as long as it can take a step
FairPubSub ==
    /\ SpecPubSub
    /\ \A c \in Clients :
          WF_vars(PubSub_Subscribe(c) \/ PubSub_Publish(c) \/ PubSub_Returned(c))

\* connection c has called Subscribe with the name of a channel that does
\* not exist yet
SubscribesNew(c) ==
    /\ ps.call[c].pc = "Subscribe"
    /\ ps.call[c].name # None
    /\ ps.call[c].name \notin {ch.name : ch \in ps.channels}

\* the call has returned with the channel in the container and the
\* connection subscribed to it, directly or through the group
SubscribedAndReturned(c) ==
    /\ ps.call[c].pc = "returned"
    /\ \E ch \in ps.channels :
          /\ ch.name = ps.call[c].name
          /\ \/ c \in ch.subscribers
             \/ \E g \in ch.consumerGroups : g.name = ps.call[c].group /\ c \in g.subscribers

\* C34: PubSub.Subscribe(conn, name, group) with a channel name that does not
\* exist yet creates the channel, subscribes the connection to it, adds the
\* channel to the container, and returns to the caller
C34_SubscribeCreatesAndReturns ==
    \A c \in Clients : SubscribesNew(c) ~> SubscribedAndReturned(c)

====
